---- MODULE Spec2Model ----
(***************************************************************************)
(* A model of the axdp packet relay and shred reassembly pipeline.         *)
(*                                                                         *)
(*   - the two shred reassemblers of examples/deshred_sharded.rs (compact, *)
(*     per-thread slot window) and examples/deshred.rs (unbounded, hash    *)
(*     map), driven in lockstep by the same sequence of calls;             *)
(*   - the AF_XDP relay datapath of src/relay_loop.rs over the four rings  *)
(*     and the UMEM free pool.                                             *)
(***************************************************************************)
EXTENDS Integers, Sequences, FiniteSets, TLC

\* ------------------------------------------------------------------------
\* Program constants
\* ------------------------------------------------------------------------

SLOT_WINDOW_SIZE == 128

MAX_SHREDS_PER_SLOT == 512

MAX_DATA_SHREDS_PER_SLOT == 32768

BATCH_SIZE == 32

ETH_HEADER_SIZE == 14

IP_HEADER_SIZE == 20

UDP_HEADER_SIZE == 8

HEADER_SIZE == ETH_HEADER_SIZE + IP_HEADER_SIZE + UDP_HEADER_SIZE

VOTE_SIZE_THRESHOLD == 400

IPPROTO_UDP == 17

\* ------------------------------------------------------------------------
\* Bounds of the model
\* ------------------------------------------------------------------------

\* data shred indices 0..MaxIdx of the main slot are fed
MaxIdx == 2

\* number of add_shred calls explored
MaxFeeds == 3

\* queue.ring_sizes(): the RX and the TX ring size of the queue
RxSize == 2

TxSize == 2

\* number of packets the kernel delivers
MaxPackets == 3

\* ------------------------------------------------------------------------
\* Shreds
\* ------------------------------------------------------------------------

\* Option::None of a shred, of a result
NoShred == [tag |-> "None"]

NoOut == [tag |-> "None"]

\* body 0 stands for bytes that do not deserialize into entries
MkShred(s, i, t, c, b) ==
    [slot |-> s, index |-> i, type |-> t, complete |-> c, body |-> b]

\* The shreds fed to the reassemblers. Slot 5 carries, for each index in
\* 0..MaxIdx, a data shred with and without the completion flag, and also a
\* data shred 1 with malformed bytes and a code shred 0; slot 133 collides
\* with slot 5 in the window (133 % 128 = 5); slot 6 lives in another window
\* entry; the last two are at the capacities of the compact and of the
\* unbounded variant.
MainSlot == 5

ShredUniverse ==
    { MkShred(MainSlot, i, "Data", c, i + 1) : i \in 0..MaxIdx, c \in BOOLEAN }
    \cup { MkShred(MainSlot, 1, "Data", FALSE, 0) }
    \cup { MkShred(MainSlot, 0, "Code", FALSE, 1) }
    \cup { MkShred(MainSlot + SLOT_WINDOW_SIZE, 0, "Data", TRUE, 1) }
    \cup { MkShred(MainSlot + 1, 0, "Data", TRUE, 1) }
    \cup { MkShred(MainSlot, MAX_SHREDS_PER_SLOT, "Data", FALSE, 1),
           MkShred(MainSlot, MAX_DATA_SHREDS_PER_SLOT, "Data", FALSE, 1) }

SlotsFed == { sh.slot : sh \in ShredUniverse }

\* the cleanup calls: current_slot, and the lookback handed to
\* DeshredManager::cleanup_old_slots (50 is what process_shred passes)
CleanupCalls ==
    { <<MainSlot, 50>>,
      <<MainSlot + SLOT_WINDOW_SIZE, 50>>,
      <<MainSlot + SLOT_WINDOW_SIZE + 2, SLOT_WINDOW_SIZE>> }

\* ------------------------------------------------------------------------
\* State
\* ------------------------------------------------------------------------

VARIABLES
    slotsL,        \* DeshredManagerLocal.slots: window index -> SlotShrdsCompact (occupied entries)
    current_slot,  \* DeshredManagerLocal.current_slot
    panicked,      \* the thread owning the local manager panicked
    slotsU,        \* DeshredManager.slots: slot -> SlotShreds
    outL,          \* what the last call on the local manager returned
    outU,          \* what the last call on the unbounded manager returned
    nfeeds,        \* add_shred calls so far (SLOT_DEBUG_COUNTER)
    lastFed,       \* the shred of the last call, when the last call was add_shred
    fed,           \* history: the shreds fed so far
    dupFed,        \* history: some shred was fed more than once
    evicted,       \* history: a slot state was dropped by a collision or a cleanup
    emL,           \* history: emissions of the local manager, in order
    emU,           \* history: emissions of the unbounded manager, in order
    lib_strict     \* whether the linked Shredder::deshred rejects a shred set with a
                   \* completion flag before its last shred (fixed for a run)

VARIABLES
    pc,            \* where relay_loop stands
    umem_free,     \* the UMEM free pool: a stack of frame offsets
    fill,          \* Fill ring (user -> kernel)
    rx_ring,       \* RX ring (kernel -> user)
    tx_ring,       \* TX ring (user -> kernel)
    completion,    \* Completion ring (kernel -> user)
    held,          \* the RX descriptor the loop is processing
    batch_count,   \* relay_loop's batch_count
    total_packets, \* relay_loop's total_packets
    mem,           \* UMEM contents: frame -> what its packet bytes hold
    cfg,           \* dest_ip, dest_port, dest_mac as resolved at startup, the
                   \* ring sizes of the queue, the packets the kernel delivers
    parsed,        \* whether the last turn of the RX loop body read packet bytes
    tx_wakeup,     \* the needs-wakeup flag the kernel keeps on the TX ring
    caps,          \* the effective capability set of the process
    iter_reads     \* RX descriptors read since the last sync of the rings

rvars == <<pc, umem_free, fill, rx_ring, tx_ring, completion, held, batch_count,
           total_packets, mem, cfg, parsed, tx_wakeup, caps, iter_reads>>

dvars == <<slotsL, current_slot, panicked, slotsU, outL, outU, nfeeds, lastFed,
           fed, dupFed, evicted, emL, emU, lib_strict>>

VARIABLES
    xsks_map,      \* XSKS_MAP: the queue indices that have a socket registered
    xdp_queue,     \* rx_queue_index of the last packet the classifier saw
    xdp_helper,    \* what the redirect helper returned for that packet
    xdp_ret,       \* what xdp_redirect returned for that packet
    shred_len,     \* parse_shred_type: data.len()
    shred_b64,     \* parse_shred_type: the byte at offset 0x40 of data
    shred_rest,    \* parse_shred_type: the value of the other bytes of data
    shred_type,    \* what parse_shred_type returned
    exit,          \* rx_loop: the exit flag
    rx_packets,    \* rx_loop: stats.rx_packets
    rx_bytes       \* rx_loop: stats.rx_bytes

xvars == <<xsks_map, xdp_queue, xdp_helper, xdp_ret>>

pvars == <<shred_len, shred_b64, shred_rest, shred_type>>

lvars == <<exit, rx_packets, rx_bytes>>

VARIABLES
    managers,      \* DeshredManagerSharded.managers: worker -> its manager
    routed,        \* history: worker -> the shreds handed to its add_shred
    emS,           \* history: worker -> its emissions, in order
    dead,          \* the workers whose thread panicked
    last_worker,   \* the worker of the last add_shred call (-1: none yet)
    sfeeds,        \* add_shred calls made through get_local so far
    stats,         \* ShredStats: the counters
    last_packet,   \* the packet and the entry point of the last process call
    free_mask,     \* PacketPool.free_mask: word -> the bits that are set
    next_search,   \* PacketPool.next_search
    tpc,           \* thread -> where it stands in acquire
    tloc,          \* thread -> the locals of its acquire call
    holding,       \* thread -> the packets it was handed and has not dropped
    dropped,       \* history: the packet indices some PacketRef drop released
    pool_calls     \* acquire calls started so far

svars == <<managers, routed, emS, dead, last_worker, sfeeds>>

tvars == <<stats, last_packet>>

kvars == <<free_mask, next_search, tpc, tloc, holding, dropped, pool_calls>>

ovars == <<svars, tvars, kvars>>

evars == <<xvars, pvars, lvars, ovars>>

vars == <<dvars, rvars, evars>>

\* ------------------------------------------------------------------------
\* The external library: Shredder::deshred and bincode::deserialize
\* ------------------------------------------------------------------------

RECURSIVE ConcatBodies(_)
ConcatBodies(ps) ==
    IF ps = <<>> THEN <<>> ELSE <<Head(ps).body>> \o ConcatBodies(Tail(ps))

\* what a strict Shredder::deshred refuses: a completion flag before the last
\* shred of the set, or none on the last
InvalidDeshredSet(payloads) ==
    \/ \E k \in 1..(Len(payloads) - 1) : payloads[k].complete
    \/ ~payloads[Len(payloads)].complete

\* concatenates the payload bodies of data shreds in the order given; fails on
\* an empty set and on a code shred, and a strict library on an invalid set
Deshred(payloads) ==
    IF \/ payloads = <<>>
       \/ \E k \in 1..Len(payloads) : payloads[k].type # "Data"
       \/ (lib_strict /\ InvalidDeshredSet(payloads))
    THEN [ok |-> FALSE, bytes |-> <<>>]
    ELSE [ok |-> TRUE, bytes |-> ConcatBodies(payloads)]

\* the entry decoder: a pure function of the bytes, failing on malformed ones
Deserialize(bytes) ==
    IF \E k \in 1..Len(bytes) : bytes[k] = 0
    THEN [ok |-> FALSE, entries |-> <<>>]
    ELSE [ok |-> TRUE, entries |-> [k \in 1..Len(bytes) |-> [entry |-> bytes[k]]]]

\* ------------------------------------------------------------------------
\* SlotShrdsCompact (examples/deshred_sharded.rs)
\* ------------------------------------------------------------------------

CompactNew(slot) ==
    [slot |-> slot, received_mask |-> {}, shreds |-> <<>>,
     segment_ends |-> <<>>, last_processed |-> 0]

\* shreds.resize(index + 1, None) when index >= shreds.len()
Resize(shreds, index) ==
    IF index >= Len(shreds)
    THEN shreds \o [k \in 1..(index + 1 - Len(shreds)) |-> NoShred]
    ELSE shreds

\* slip: the completion flags are not looked at
CompactIsSegmentEnd_AnyData(sh) == sh.type = "Data"

\* whether add_shred records the index of sh as a segment end
CompactIsSegmentEnd(sh) == sh.type = "Data" /\ sh.complete

\* the shred table after add_shred stored sh
CompactStore(st, sh) ==
    [Resize(st.shreds, sh.index) EXCEPT ![sh.index + 1] = sh]

\* slip: the index is not compared with MAX_SHREDS_PER_SLOT
CompactAddShred_NoCapacityCheck(st, sh) ==
    IF sh.index \in st.received_mask THEN [st |-> st, new |-> FALSE]
    ELSE [st |-> [st EXCEPT
                    !.received_mask = @ \cup {sh.index},
                    !.segment_ends =
                        IF CompactIsSegmentEnd(sh) THEN Append(@, sh.index) ELSE @,
                    !.shreds = CompactStore(st, sh)],
          new |-> TRUE]

\* SlotShrdsCompact::add_shred: the state after it, and what it returns
CompactAddShred(st, sh) ==
    IF sh.index >= MAX_SHREDS_PER_SLOT THEN [st |-> st, new |-> FALSE]
    ELSE IF sh.index \in st.received_mask THEN [st |-> st, new |-> FALSE]
    ELSE [st |-> [st EXCEPT
                    !.received_mask = @ \cup {sh.index},
                    !.segment_ends =
                        IF CompactIsSegmentEnd(sh) THEN Append(@, sh.index) ELSE @,
                    !.shreds = CompactStore(st, sh)],
          new |-> TRUE]

\* the shred table after a successful deshred of [start_idx, end_idx]
CompactClear(shreds, start_idx, end_idx) ==
    [k \in 1..Len(shreds) |->
        IF k - 1 \in start_idx..end_idx THEN NoShred ELSE shreds[k]]

\* slip: last_processed = end_idx instead of end_idx + 1
CompactConsume_OffByOne(st, start_idx, end_idx) ==
    [st EXCEPT !.segment_ends = Tail(@),
               !.last_processed = end_idx,
               !.shreds = CompactClear(@, start_idx, end_idx)]

\* slip: last_processed = end_idx - 1 instead of end_idx + 1
CompactConsume_CursorBack(st, start_idx, end_idx) ==
    [st EXCEPT !.segment_ends = Tail(@),
               !.last_processed = end_idx - 1,
               !.shreds = CompactClear(@, start_idx, end_idx)]

\* the slot state after a successful deshred of [start_idx, end_idx]
CompactConsume(st, start_idx, end_idx) ==
    [st EXCEPT !.segment_ends = Tail(@),
               !.last_processed = end_idx + 1,
               !.shreds = CompactClear(@, start_idx, end_idx)]

\* slip: a segment whose deshred or deserialization fails is dropped from
\* segment_ends
CompactTryDeshredFast_DropOnError(st) ==
    IF st.segment_ends = <<>>
    THEN [st |-> st, out |-> NoOut, panic |-> FALSE]
    ELSE LET end_idx == Head(st.segment_ends)
             start_idx == st.last_processed
         IN  IF \E idx \in start_idx..end_idx : idx \notin st.received_mask
             THEN [st |-> st, out |-> NoOut, panic |-> FALSE]
             ELSE IF start_idx > end_idx + 1 \/ end_idx + 1 > Len(st.shreds)
             THEN [st |-> st, out |-> NoOut, panic |-> TRUE]
             ELSE LET slice == SubSeq(st.shreds, start_idx + 1, end_idx + 1)
                      payloads == SelectSeq(slice, LAMBDA s : s # NoShred)
                      d == Deshred(payloads)
                      e == Deserialize(d.bytes)
                  IN  IF d.ok /\ e.ok
                      THEN [st |-> CompactConsume(st, start_idx, end_idx),
                            out |-> [slot |-> st.slot, start |-> start_idx,
                                     end |-> end_idx, entries |-> e.entries,
                                     payload |-> d.bytes],
                            panic |-> FALSE]
                      ELSE [st |-> [st EXCEPT !.segment_ends = Tail(@)],
                            out |-> NoOut, panic |-> FALSE]

\* slip: a segment whose deshred or deserialization fails goes to the back
\* of segment_ends
CompactTryDeshredFast_RotateOnError(st) ==
    IF st.segment_ends = <<>>
    THEN [st |-> st, out |-> NoOut, panic |-> FALSE]
    ELSE LET end_idx == Head(st.segment_ends)
             start_idx == st.last_processed
         IN  IF \E idx \in start_idx..end_idx : idx \notin st.received_mask
             THEN [st |-> st, out |-> NoOut, panic |-> FALSE]
             ELSE IF start_idx > end_idx + 1 \/ end_idx + 1 > Len(st.shreds)
             THEN [st |-> st, out |-> NoOut, panic |-> TRUE]
             ELSE LET slice == SubSeq(st.shreds, start_idx + 1, end_idx + 1)
                      payloads == SelectSeq(slice, LAMBDA s : s # NoShred)
                      d == Deshred(payloads)
                      e == Deserialize(d.bytes)
                  IN  IF d.ok /\ e.ok
                      THEN [st |-> CompactConsume(st, start_idx, end_idx),
                            out |-> [slot |-> st.slot, start |-> start_idx,
                                     end |-> end_idx, entries |-> e.entries,
                                     payload |-> d.bytes],
                            panic |-> FALSE]
                      ELSE [st |-> [st EXCEPT !.segment_ends = Tail(@) \o <<Head(@)>>],
                            out |-> NoOut, panic |-> FALSE]

\* SlotShrdsCompact::try_deshred_fast: the state after it, what it returns,
\* and whether slicing shreds[start_idx..=end_idx] panicked
CompactTryDeshredFast(st) ==
    IF st.segment_ends = <<>>
    THEN [st |-> st, out |-> NoOut, panic |-> FALSE]
    ELSE LET end_idx == Head(st.segment_ends)
             start_idx == st.last_processed
         IN  IF \E idx \in start_idx..end_idx : idx \notin st.received_mask
             THEN [st |-> st, out |-> NoOut, panic |-> FALSE]
             ELSE IF start_idx > end_idx + 1 \/ end_idx + 1 > Len(st.shreds)
             THEN [st |-> st, out |-> NoOut, panic |-> TRUE]
             ELSE LET slice == SubSeq(st.shreds, start_idx + 1, end_idx + 1)
                      payloads == SelectSeq(slice, LAMBDA s : s # NoShred)
                      d == Deshred(payloads)
                      e == Deserialize(d.bytes)
                  IN  IF d.ok /\ e.ok
                      THEN [st |-> CompactConsume(st, start_idx, end_idx),
                            out |-> [slot |-> st.slot, start |-> start_idx,
                                     end |-> end_idx, entries |-> e.entries,
                                     payload |-> d.bytes],
                            panic |-> FALSE]
                      ELSE [st |-> st, out |-> NoOut, panic |-> FALSE]

\* ------------------------------------------------------------------------
\* SlotShreds (examples/deshred.rs)
\* ------------------------------------------------------------------------

\* data_status and data_shreds are vectors of MAX_DATA_SHREDS_PER_SLOT
\* entries; the model keeps the entries that are not Unknown / None
EmptyMap == [i \in {} |-> NoShred]

SlotShredsNew(slot) ==
    [slot |-> slot, data_status |-> EmptyMap, data_shreds |-> EmptyMap,
     code_shreds |-> <<>>]

MapPut(f, k, v) == [i \in DOMAIN f \cup {k} |-> IF i = k THEN v ELSE f[i]]

MapClear(f, lo, hi) == [i \in DOMAIN f \ (lo..hi) |-> f[i]]

Status(st, i) ==
    IF i \in DOMAIN st.data_status THEN st.data_status[i] ELSE "Unknown"

HasData(st, i) == i \in DOMAIN st.data_shreds

\* the Data arm of SlotShreds::add_shred
SlotShredsAddData(st, sh) ==
    IF sh.index >= MAX_DATA_SHREDS_PER_SLOT THEN [st |-> st, new |-> FALSE]
    ELSE IF HasData(st, sh.index) THEN [st |-> st, new |-> FALSE]
    ELSE [st |-> [st EXCEPT
                    !.data_status =
                        MapPut(@, sh.index,
                               IF sh.complete THEN "DataComplete"
                               ELSE "NotDataComplete"),
                    !.data_shreds = MapPut(@, sh.index, sh)],
          new |-> TRUE]

\* the Code arm of SlotShreds::add_shred
SlotShredsAddCode(st, sh) ==
    IF \E k \in 1..Len(st.code_shreds) : st.code_shreds[k].index = sh.index
    THEN [st |-> st, new |-> FALSE]
    ELSE [st |-> [st EXCEPT !.code_shreds = Append(@, sh)], new |-> TRUE]

SlotShredsAddShred(st, sh) ==
    IF sh.type = "Data" THEN SlotShredsAddData(st, sh) ELSE SlotShredsAddCode(st, sh)

SetMin(S) == CHOOSE m \in S : \A x \in S : m <= x

\* the backwards scan of find_complete_segment, from s down to 0
RECURSIVE ScanBack(_, _, _)
ScanBack(st, s, end) ==
    IF s = 0 THEN [found |-> TRUE, start |-> 0, end |-> end]
    ELSE LET t == s - 1
         IN  CASE Status(st, t) = "DataComplete" ->
                      [found |-> TRUE, start |-> t + 1, end |-> end]
               [] Status(st, t) = "Unknown" ->
                      [found |-> FALSE, start |-> 0, end |-> end]
               [] OTHER -> ScanBack(st, t, end)

\* SlotShreds::find_complete_segment
FindCompleteSegment(st) ==
    LET dc == { i \in DOMAIN st.data_status : st.data_status[i] = "DataComplete" }
    IN  IF dc = {} THEN [found |-> FALSE, start |-> 0, end |-> 0]
        ELSE ScanBack(st, SetMin(dc), SetMin(dc))

\* the slot state after try_deshred cleared the segment [start, end]
SlotShredsConsume(st, start, end) ==
    [st EXCEPT !.data_shreds = MapClear(@, start, end),
               !.data_status = MapClear(@, start, end)]

\* SlotShreds::try_deshred
SlotShredsTryDeshred(st) ==
    LET seg == FindCompleteSegment(st)
    IN  IF ~seg.found THEN [st |-> st, out |-> NoOut]
        ELSE IF \E i \in seg.start..seg.end : ~HasData(st, i)
        THEN [st |-> st, out |-> NoOut]
        ELSE LET payloads ==
                     [k \in 1..(seg.end - seg.start + 1) |->
                         st.data_shreds[seg.start + k - 1]]
                 d == Deshred(payloads)
                 e == Deserialize(d.bytes)
             IN  IF d.ok /\ e.ok
                 THEN [st |-> SlotShredsConsume(st, seg.start, seg.end),
                       out |-> [slot |-> st.slot, start |-> seg.start,
                                end |-> seg.end, entries |-> e.entries,
                                payload |-> d.bytes]]
                 ELSE [st |-> st, out |-> NoOut]

\* ------------------------------------------------------------------------
\* DeshredManagerLocal (examples/deshred_sharded.rs)
\* ------------------------------------------------------------------------

SlotIdx(slot) == slot % SLOT_WINDOW_SIZE

\* slip: the entry present is reused whatever slot it holds
LocalEntry_KeepOld(slots, slot) ==
    IF SlotIdx(slot) \in DOMAIN slots
    THEN slots[SlotIdx(slot)]
    ELSE CompactNew(slot)

\* the window entry add_shred works on: the one present when it holds the
\* slot, a fresh one otherwise
LocalEntry(slots, slot) ==
    IF SlotIdx(slot) \in DOMAIN slots /\ slots[SlotIdx(slot)].slot = slot
    THEN slots[SlotIdx(slot)]
    ELSE CompactNew(slot)

\* whether add_shred for this slot drops the state of another slot
LocalEvicts(slots, slot) ==
    SlotIdx(slot) \in DOMAIN slots /\ slots[SlotIdx(slot)].slot # slot

\* DeshredManagerLocal::add_shred: the window after it, what it returns,
\* whether it panicked
LocalAddShred(slots, sh) ==
    LET a == CompactAddShred(LocalEntry(slots, sh.slot), sh)
        t == CompactTryDeshredFast(a.st)
    IN  IF ~a.new
        THEN [slots |-> MapPut(slots, SlotIdx(sh.slot), a.st),
              out |-> NoOut, panic |-> FALSE]
        ELSE [slots |-> MapPut(slots, SlotIdx(sh.slot), t.st),
              out |-> t.out, panic |-> t.panic]

\* DeshredManagerLocal::cleanup_old_slots
Threshold(current, lookback) == IF current >= lookback THEN current - lookback ELSE 0

\* slip: an entry whose slot equals the threshold is cleared too
LocalCleanup_AtThreshold(slots, current) ==
    [i \in { j \in DOMAIN slots :
               ~(slots[j].slot <= Threshold(current, SLOT_WINDOW_SIZE)) } |-> slots[i]]

LocalCleanup(slots, current) ==
    [i \in { j \in DOMAIN slots :
               ~(slots[j].slot < Threshold(current, SLOT_WINDOW_SIZE)) } |-> slots[i]]

\* ------------------------------------------------------------------------
\* DeshredManager (examples/deshred.rs)
\* ------------------------------------------------------------------------

\* slots.entry(slot).or_insert_with(|| SlotShreds::new(slot))
ManagerEntry(slots, slot) ==
    IF slot \in DOMAIN slots THEN slots[slot] ELSE SlotShredsNew(slot)

\* DeshredManager::add_shred
ManagerAddShred(slots, sh) ==
    LET a == SlotShredsAddShred(ManagerEntry(slots, sh.slot), sh)
        t == SlotShredsTryDeshred(a.st)
    IN  IF ~a.new
        THEN [slots |-> MapPut(slots, sh.slot, a.st), out |-> NoOut]
        ELSE [slots |-> MapPut(slots, sh.slot, t.st), out |-> t.out]

\* DeshredManager::cleanup_old_slots
ManagerCleanup(slots, current, lookback) ==
    [s \in { x \in DOMAIN slots : x >= Threshold(current, lookback) } |-> slots[s]]

\* ------------------------------------------------------------------------
\* UMEM and the four rings (crate::umem, crate::socket)
\* ------------------------------------------------------------------------

\* frame_count = (rx_size + tx_size) * 2; frame k is at offset k * frame_size
FrameCount == (cfg.rx_size + cfg.tx_size) * 2

Frames == 0..(FrameCount - 1)

\* Socket::new(queue, umem, zero_copy, rx_size, rx_size, tx_size * 2, tx_size)
FillCap == cfg.rx_size

RxCap == cfg.rx_size

CompletionCap == cfg.tx_size * 2

TxCap == cfg.tx_size

NoDesc == [tag |-> "None"]

\* umem.reserve(): pops the frame on top of the free stack
UmemReserve(free) ==
    IF free = <<>> THEN [ok |-> FALSE, frame |-> NoDesc, free |-> free]
    ELSE [ok |-> TRUE, frame |-> free[Len(free)], free |-> SubSeq(free, 1, Len(free) - 1)]

\* umem.release(offset)
UmemRelease(free, addr) == Append(free, addr)

\* A ring the user produces into (Fill, TX): q holds the entries written and
\* not yet consumed by the kernel, the first pub of them are published, and
\* stale counts the entries the kernel consumed since the user last synced.
NewProducer == [q |-> <<>>, pub |-> 0, stale |-> 0]

\* available(): the space the producer knows of
ProducerAvailable(r, cap) == cap - Len(r.q) - r.stale

\* slip: write never looks at the space left
ProducerWrite_NoFullCheck(r, cap, d) ==
    [ok |-> TRUE, ring |-> [r EXCEPT !.q = Append(@, d)]]

\* write(desc): fails when the ring is full
ProducerWrite(r, cap, d) ==
    IF ProducerAvailable(r, cap) = 0 THEN [ok |-> FALSE, ring |-> r]
    ELSE [ok |-> TRUE, ring |-> [r EXCEPT !.q = Append(@, d)]]

\* commit(): publishes the producer index
ProducerCommit(r) == [r EXCEPT !.pub = Len(r.q)]

\* sync(false): publishes the producer index and reloads the consumer index
ProducerSync(r) == [r EXCEPT !.pub = Len(r.q), !.stale = 0]

\* A ring the user consumes from (RX, Completion): q holds the entries the
\* kernel produced and the user has not read, the user knows of the first
\* seen of them, and unrel counts the entries read whose consumer index is
\* not yet published.
NewConsumer == [q |-> <<>>, seen |-> 0, unrel |-> 0]

\* slip: read takes the newest descriptor of the ring
ConsumerRead_Newest(r) ==
    IF r.seen = 0 THEN [ok |-> FALSE, desc |-> NoDesc, ring |-> r]
    ELSE [ok |-> TRUE, desc |-> r.q[r.seen],
          ring |-> [r EXCEPT
                      !.q = SubSeq(@, 1, r.seen - 1) \o SubSeq(@, r.seen + 1, Len(@)),
                      !.seen = @ - 1, !.unrel = @ + 1]]

\* read(): pops one descriptor, none when the ring is empty
ConsumerRead(r) ==
    IF r.seen = 0 THEN [ok |-> FALSE, desc |-> NoDesc, ring |-> r]
    ELSE [ok |-> TRUE, desc |-> Head(r.q),
          ring |-> [r EXCEPT !.q = Tail(@), !.seen = @ - 1, !.unrel = @ + 1]]

\* commit(): publishes the consumer index
ConsumerCommit(r) == [r EXCEPT !.unrel = 0]

\* sync(false): publishes the consumer index and reloads the producer index
ConsumerSync(r) == [r EXCEPT !.unrel = 0, !.seen = Len(r.q)]

\* ------------------------------------------------------------------------
\* relay_loop (src/relay_loop.rs)
\* ------------------------------------------------------------------------

\* dest_mac: the override, else the next hop of the route lookup, and none
\* without a dest_ip
DestMac(dest_ip, mac_override, route_mac) ==
    IF dest_ip THEN (mac_override \/ route_mac) ELSE FALSE

\* the startup configurations explored: dest_ip, dest_port, dest_mac override
\* given, route lookup finds a MAC
Configs ==
    { <<TRUE, TRUE, TRUE, FALSE>>, <<TRUE, TRUE, FALSE, TRUE>>,
      <<TRUE, TRUE, FALSE, FALSE>>, <<FALSE, FALSE, FALSE, FALSE>> }

\* if let (Some(dest_ip), Some(dest_port), Some(dest_mac)) = ...
Forwarding(c) == c.dest_ip /\ c.dest_port /\ c.dest_mac

\* the packets the kernel delivers: length and IP protocol byte
PacketKinds ==
    { [len |-> HEADER_SIZE + VOTE_SIZE_THRESHOLD - 1, proto |-> IPPROTO_UDP],
      [len |-> HEADER_SIZE + VOTE_SIZE_THRESHOLD, proto |-> 6],
      [len |-> HEADER_SIZE + VOTE_SIZE_THRESHOLD, proto |-> IPPROTO_UDP] }

\* the content of a frame: IP protocol byte, state of the 42 header bytes,
\* UDP payload (0: nothing received yet)
BlankFrame == [len |-> 0, proto |-> 0, hdr |-> "none", payload |-> 0]

\* write_eth_header, write_ip_header, write_udp_header on the frame: the
\* Ethernet, IPv4 and UDP headers are written anew, the IPv4 protocol is UDP
RewriteHeaders(fr) == [fr EXCEPT !.hdr = "rewritten", !.proto = IPPROTO_UDP]

\* slip: the TX descriptor gets length 0, as the Fill frames do
TxFrame_ZeroLen(desc) == [addr |-> desc.addr, len |-> 0]

\* SliceUmemFrame::from_offset(FrameOffset(umem_offset), packet_len)
TxFrame(desc) == [addr |-> desc.addr, len |-> desc.len]

\* slip: the frame is released although the Fill ring took it
ReturnToFill_AlsoRelease(f, free, addr) ==
    LET w == ProducerWrite(f, FillCap, addr)
    IN  [fill |-> w.ring, free |-> UmemRelease(free, addr)]

\* slip: the frame is always released, the Fill ring is not tried
ReturnToFill_OnlyRelease(f, free, addr) ==
    [fill |-> f, free |-> UmemRelease(free, addr)]

\* if fill.write(frame).is_err() { umem.release(FrameOffset(umem_offset)) }
ReturnToFill(f, free, addr) ==
    LET w == ProducerWrite(f, FillCap, addr)
    IN  [fill |-> w.ring, free |-> IF w.ok THEN free ELSE UmemRelease(free, addr)]

\* the pre-fill loop: up to n frames move from the free pool to the Fill ring
RECURSIVE PreFill(_, _, _)
PreFill(n, f, free) ==
    IF n = 0 THEN [fill |-> f, free |-> free]
    ELSE LET r == UmemReserve(free)
             w == ProducerWrite(f, FillCap, r.frame)
         IN  IF ~r.ok THEN [fill |-> f, free |-> free]
             ELSE IF ~w.ok THEN [fill |-> f, free |-> r.free]
             ELSE PreFill(n - 1, w.ring, r.free)

Min(a, b) == IF a < b THEN a ELSE b

\* the capabilities the program deals with
Capabilities == {"CAP_NET_ADMIN", "CAP_NET_RAW", "CAP_BPF", "CAP_SYS_NICE"}

\* the configuration of a run: destination as resolved at startup, ring
\* sizes reported by queue.ring_sizes(), packets the kernel delivers
MkCfg(c, rx_size, tx_size, packets) ==
    [dest_ip |-> c[1], dest_port |-> c[2], dest_mac |-> DestMac(c[1], c[3], c[4]),
     rx_size |-> rx_size, tx_size |-> tx_size, packets |-> packets]

\* the state in which a program starts at entry, run with c
RStartAt(c, entry) ==
    /\ cfg = c
    /\ pc = entry
    /\ umem_free = [k \in 1..FrameCount |-> k - 1]
    /\ fill = NewProducer
    /\ rx_ring = NewConsumer
    /\ tx_ring = NewProducer
    /\ completion = NewConsumer
    /\ held = NoDesc
    /\ batch_count = 0
    /\ total_packets = 0
    /\ mem = [f \in Frames |-> BlankFrame]
    /\ parsed = FALSE
    /\ tx_wakeup = FALSE
    /\ caps = {}
    /\ iter_reads = 0

\* the state in which main of examples/relay.rs starts, run with c
RStart(c) == RStartAt(c, "main")

RInit == \E c \in Configs : RStart(MkCfg(c, RxSize, TxSize, MaxPackets))

\* examples/relay.rs 48-58: main raises three capabilities
RelayMainRaiseCaps ==
    /\ pc = "main"
    /\ caps' = caps \cup {"CAP_NET_ADMIN", "CAP_NET_RAW", "CAP_BPF"}
    /\ pc' = "raise"
    /\ UNCHANGED <<umem_free, fill, rx_ring, tx_ring, completion, held,
                   batch_count, total_packets, mem, cfg, parsed, tx_wakeup,
                   iter_reads>>

\* lines 79-82: relay_loop raises the capabilities for the socket
RelayRaiseCaps ==
    /\ pc = "raise"
    /\ caps' = caps \cup {"CAP_NET_ADMIN", "CAP_NET_RAW", "CAP_SYS_NICE"}
    /\ pc' = "socket"
    /\ UNCHANGED <<umem_free, fill, rx_ring, tx_ring, completion, held,
                   batch_count, total_packets, mem, cfg, parsed, tx_wakeup,
                   iter_reads>>

\* lines 84-145: the XDP program is loaded, the socket is created and
\* registered, and two capabilities are dropped
RelayDropCaps ==
    /\ pc = "socket"
    /\ caps' = caps \ {"CAP_NET_ADMIN", "CAP_NET_RAW"}
    /\ pc' = "prefill"
    /\ UNCHANGED <<umem_free, fill, rx_ring, tx_ring, completion, held,
                   batch_count, total_packets, mem, cfg, parsed, tx_wakeup,
                   iter_reads>>

\* lines 158-172: fill.sync, the pre-fill loop, fill.commit
RelayPreFill ==
    /\ pc = "prefill"
    /\ LET p == PreFill(Min(cfg.rx_size, Len(umem_free)), ProducerSync(fill), umem_free)
       IN  /\ fill' = ProducerCommit(p.fill)
           /\ umem_free' = p.free
    /\ pc' = "sync"
    /\ UNCHANGED <<rx_ring, tx_ring, completion, held, batch_count,
                   total_packets, mem, cfg, parsed, tx_wakeup, caps, iter_reads>>

\* slip: fill.sync(false) is left out
RelaySync_NoFill ==
    /\ pc = "sync"
    /\ rx_ring' = ConsumerSync(rx_ring)
    /\ tx_ring' = ProducerSync(tx_ring)
    /\ completion' = ConsumerSync(completion)
    /\ pc' = "completion"
    /\ iter_reads' = 0
    /\ UNCHANGED <<fill, umem_free, held, batch_count, total_packets, mem, cfg,
                   parsed, tx_wakeup, caps>>

\* lines 208-211: sync of the four rings
RelaySync ==
    /\ pc = "sync"
    /\ rx_ring' = ConsumerSync(rx_ring)
    /\ tx_ring' = ProducerSync(tx_ring)
    /\ completion' = ConsumerSync(completion)
    /\ fill' = ProducerSync(fill)
    /\ pc' = "completion"
    /\ iter_reads' = 0
    /\ UNCHANGED <<umem_free, held, batch_count, total_packets, mem, cfg, parsed,
                   tx_wakeup, caps>>

\* slip: the frame read from the Completion ring is not released
RelayCompletion_NoRelease ==
    /\ pc = "completion"
    /\ LET r == ConsumerRead(completion)
       IN  IF ~r.ok
           THEN /\ pc' = "rx"
                /\ UNCHANGED completion
           ELSE /\ completion' = r.ring
                /\ pc' = "completion"
    /\ UNCHANGED <<umem_free, fill, rx_ring, tx_ring, held, batch_count,
                   total_packets, mem, cfg, parsed, tx_wakeup, caps, iter_reads>>

\* lines 221-223: one turn of the Completion drain
RelayCompletion ==
    /\ pc = "completion"
    /\ LET r == ConsumerRead(completion)
       IN  IF ~r.ok
           THEN /\ pc' = "rx"
                /\ UNCHANGED <<completion, umem_free>>
           ELSE /\ completion' = r.ring
                /\ umem_free' = UmemRelease(umem_free, r.desc)
                /\ pc' = "completion"
    /\ UNCHANGED <<fill, rx_ring, tx_ring, held, batch_count, total_packets,
                   mem, cfg, parsed, tx_wakeup, caps, iter_reads>>

\* line 226: rx_ring.read(), and lines 227-230
RelayRxRead ==
    /\ pc = "rx"
    /\ LET r == ConsumerRead(rx_ring)
       IN  IF ~r.ok
           THEN /\ pc' = "refill"
                /\ UNCHANGED <<rx_ring, held, total_packets, iter_reads>>
           ELSE /\ rx_ring' = r.ring
                /\ held' = r.desc
                /\ total_packets' = total_packets + 1
                /\ iter_reads' = iter_reads + 1
                /\ pc' = "process"
    /\ UNCHANGED <<umem_free, fill, tx_ring, completion, batch_count, mem, cfg,
                   parsed, tx_wakeup, caps>>

\* lines 373-381: the batch commit; wake tells whether tx_ring.wake() ran
BatchCommit(count, rings) ==
    IF count >= BATCH_SIZE
    THEN [count |-> 0, rx |-> ConsumerCommit(rings.rx),
          tx |-> ProducerCommit(rings.tx), fill |-> ProducerCommit(rings.fill),
          wake |-> tx_wakeup]
    ELSE [count |-> count, rx |-> rings.rx, tx |-> rings.tx, fill |-> rings.fill,
          wake |-> FALSE]

\* slip: every packet that holds the three headers passes the size filter
TooShort_HeadersOnly(len) == len < HEADER_SIZE

\* if packet_len < HEADER_SIZE + VOTE_SIZE_THRESHOLD
TooShort(len) == len < HEADER_SIZE + VOTE_SIZE_THRESHOLD

\* slip: the protocol byte is not looked at
NotUdp_Never(fr) == FALSE

\* if ip_header[9] != IPPROTO_UDP
NotUdp(fr) == fr.proto # IPPROTO_UDP

\* lines 237-382: the body of the RX loop for the descriptor read
RelayProcess ==
    /\ pc = "process"
    /\ LET back == ReturnToFill(fill, umem_free, held.addr)
           w == ProducerWrite(tx_ring, TxCap, TxFrame(held))
       IN  IF TooShort(held.len) \/ NotUdp(mem[held.addr])
           THEN \* filtered: back to the Fill ring, continue
                /\ fill' = back.fill
                /\ umem_free' = back.free
                /\ UNCHANGED <<tx_ring, rx_ring, batch_count, mem, tx_wakeup>>
           ELSE LET fwd == Forwarding(cfg) /\ w.ok
                    c == BatchCommit(batch_count + 1,
                                     [rx |-> rx_ring,
                                      tx |-> IF fwd THEN w.ring ELSE tx_ring,
                                      fill |-> IF fwd THEN fill ELSE back.fill])
                IN  /\ mem' = IF Forwarding(cfg)
                              THEN [mem EXCEPT ![held.addr] = RewriteHeaders(@)]
                              ELSE mem
                    /\ umem_free' = IF fwd THEN umem_free ELSE back.free
                    /\ rx_ring' = c.rx
                    /\ tx_ring' = c.tx
                    /\ fill' = c.fill
                    /\ batch_count' = c.count
                    /\ tx_wakeup' = (tx_wakeup /\ ~c.wake)
    /\ held' = NoDesc
    /\ pc' = "rx"
    /\ parsed' = ~TooShort(held.len)
    /\ UNCHANGED <<completion, total_packets, cfg, caps, iter_reads>>

\* lines 385-395: one turn of the refill loop
RelayRefill ==
    /\ pc = "refill"
    /\ LET r == UmemReserve(umem_free)
           w == ProducerWrite(fill, FillCap, r.frame)
       IN  IF ProducerAvailable(fill, FillCap) > 0 /\ r.ok
           THEN IF w.ok
                THEN /\ fill' = w.ring
                     /\ umem_free' = r.free
                     /\ pc' = "refill"
                ELSE /\ umem_free' = UmemRelease(r.free, r.frame)
                     /\ pc' = "final"
                     /\ UNCHANGED fill
           ELSE /\ pc' = "final"
                /\ UNCHANGED <<fill, umem_free>>
    /\ UNCHANGED <<rx_ring, tx_ring, completion, held, batch_count,
                   total_packets, mem, cfg, parsed, tx_wakeup, caps, iter_reads>>

\* lines 398-403: the final commits
RelayFinalCommit ==
    /\ pc = "final"
    /\ IF batch_count > 0
       THEN /\ rx_ring' = ConsumerCommit(rx_ring)
            /\ tx_ring' = ProducerCommit(tx_ring)
            /\ fill' = ProducerCommit(fill)
            /\ batch_count' = 0
       ELSE UNCHANGED <<rx_ring, tx_ring, fill, batch_count>>
    /\ pc' = "sync"
    /\ UNCHANGED <<umem_free, completion, held, total_packets, mem, cfg, parsed, tx_wakeup, caps, iter_reads>>

\* the kernel receives a packet into the frame at the head of the published
\* part of the Fill ring and queues its descriptor on the RX ring
KernelReceive(kind) ==
    /\ fill.pub > 0
    /\ Len(rx_ring.q) + rx_ring.unrel < RxCap
    /\ total_packets + rx_packets + Len(rx_ring.q) < cfg.packets
    /\ LET addr == Head(fill.q)
       IN  /\ fill' = [fill EXCEPT !.q = Tail(@), !.pub = @ - 1, !.stale = @ + 1]
           /\ rx_ring' = [rx_ring EXCEPT
                            !.q = Append(@, [addr |-> addr, len |-> kind.len])]
           /\ mem' = [mem EXCEPT ![addr] = [len |-> kind.len,
                                            proto |-> kind.proto, hdr |-> "received",
                                            payload |-> total_packets + rx_packets
                                                        + Len(rx_ring.q) + 1]]
    /\ UNCHANGED <<pc, umem_free, tx_ring, completion, held, batch_count,
                   total_packets, cfg, parsed, tx_wakeup, caps, iter_reads>>

\* the kernel transmits the descriptor at the head of the published part of
\* the TX ring and hands its frame back on the Completion ring
KernelTransmit ==
    /\ ~tx_wakeup
    /\ tx_ring.pub > 0
    /\ Len(completion.q) + completion.unrel < CompletionCap
    /\ tx_ring' = [tx_ring EXCEPT !.q = Tail(@), !.pub = @ - 1, !.stale = @ + 1]
    /\ completion' = [completion EXCEPT !.q = Append(@, Head(tx_ring.q).addr)]
    /\ UNCHANGED <<pc, umem_free, fill, rx_ring, held, batch_count,
                   total_packets, mem, cfg, parsed, tx_wakeup, caps, iter_reads>>

\* the kernel stops looking at the TX ring and sets the needs-wakeup flag:
\* it transmits again after a wake
KernelRequestWakeup ==
    /\ ~tx_wakeup
    /\ tx_wakeup' = TRUE
    /\ UNCHANGED <<pc, umem_free, fill, rx_ring, tx_ring, completion, held,
                   batch_count, total_packets, mem, cfg, parsed, caps, iter_reads>>

\* the relay stands still while the reassemblers are explored
RIdle == RStart(MkCfg(<<FALSE, FALSE, FALSE, FALSE>>, RxSize, TxSize, MaxPackets))

\* ------------------------------------------------------------------------
\* Actions of the reassemblers
\* ------------------------------------------------------------------------

Emit(log, out) == IF out = NoOut THEN log ELSE Append(log, out)

DStart ==
    /\ slotsL = EmptyMap
    /\ current_slot = 0
    /\ panicked = FALSE
    /\ slotsU = EmptyMap
    /\ outL = NoOut
    /\ outU = NoOut
    /\ nfeeds = 0
    /\ lastFed = NoShred
    /\ fed = {}
    /\ dupFed = FALSE
    /\ evicted = FALSE
    /\ emL = <<>>
    /\ emU = <<>>

\* the classifier has seen no packet and no socket is registered
XIdle ==
    /\ xsks_map = {}
    /\ xdp_queue = 0
    /\ xdp_helper = "none"
    /\ xdp_ret = "none"

\* parse_shred_type has no input
PIdle ==
    /\ shred_len = 0
    /\ shred_b64 = 0
    /\ shred_rest = 0
    /\ shred_type = "unset"

\* the exit flag is clear and the statistics are zero
LIdle ==
    /\ exit = FALSE
    /\ rx_packets = 0
    /\ rx_bytes = 0

\* the workers of the sharded manager (num_threads of them)
NumThreads == 2

Workers == 0..(NumThreads - 1)

\* DeshredManagerSharded::new(num_threads): every worker has an empty window
SIdle ==
    /\ managers = [w \in Workers |-> [slots |-> EmptyMap, current_slot |-> 0]]
    /\ routed = [w \in Workers |-> {}]
    /\ emS = [w \in Workers |-> <<>>]
    /\ dead = {}
    /\ last_worker = -1
    /\ sfeeds = 0

\* ShredStats::new()
StatsNew ==
    [received |-> 0, decoded |-> 0, errors |-> 0, data_shreds |-> 0,
     code_shreds |-> 0]

TIdle ==
    /\ stats = StatsNew
    /\ last_packet = [tag |-> "None"]

\* the pool of the model: PoolWords words of WordBits bits, standing for
\* POOL_SIZE / 64 words of 64 bits
PoolWords == 2

WordBits == 2

PoolThreads == {"relay", "decoder"}

\* a thread outside acquire has no locals
NoLocals ==
    [kind |-> "none", start_idx |-> 0, offset |-> 0, current |-> {},
     packet_idx |-> 0]

\* PacketPool::new(): every bit of free_mask set, next_search 0
KIdle ==
    /\ free_mask = [w \in 0..(PoolWords - 1) |-> 0..(WordBits - 1)]
    /\ next_search = 0
    /\ tpc = [t \in PoolThreads |-> "idle"]
    /\ tloc = [t \in PoolThreads |-> NoLocals]
    /\ holding = [t \in PoolThreads |-> {}]
    /\ dropped = {}
    /\ pool_calls = 0

OIdle == SIdle /\ TIdle /\ KIdle

DInit ==
    /\ DStart
    /\ lib_strict \in BOOLEAN
    /\ RIdle
    /\ XIdle /\ PIdle /\ LIdle /\ OIdle

\* the same shred is handed to add_shred of both managers
Feed(sh) ==
    /\ ~panicked
    /\ nfeeds < MaxFeeds
    /\ LET l == LocalAddShred(slotsL, sh)
           u == ManagerAddShred(slotsU, sh)
       IN  /\ slotsL' = l.slots
           /\ current_slot' = sh.slot
           /\ panicked' = l.panic
           /\ slotsU' = u.slots
           /\ outL' = l.out
           /\ outU' = u.out
           /\ emL' = Emit(emL, l.out)
           /\ emU' = Emit(emU, u.out)
           /\ evicted' = (evicted \/ LocalEvicts(slotsL, sh.slot))
    /\ nfeeds' = nfeeds + 1
    /\ lastFed' = sh
    /\ fed' = fed \cup {sh}
    /\ dupFed' = (dupFed \/ sh \in fed)
    /\ UNCHANGED <<lib_strict, rvars, evars>>

\* a caller asks both slot states of one slot again, with no new shred
Retry(slot) ==
    /\ ~panicked
    /\ SlotIdx(slot) \in DOMAIN slotsL
    /\ slotsL[SlotIdx(slot)].slot = slot
    /\ slot \in DOMAIN slotsU
    /\ LET l == CompactTryDeshredFast(slotsL[SlotIdx(slot)])
           u == SlotShredsTryDeshred(slotsU[slot])
       IN  /\ slotsL' = [slotsL EXCEPT ![SlotIdx(slot)] = l.st]
           /\ panicked' = l.panic
           /\ slotsU' = [slotsU EXCEPT ![slot] = u.st]
           /\ outL' = l.out
           /\ outU' = u.out
           /\ emL' = Emit(emL, l.out)
           /\ emU' = Emit(emU, u.out)
    /\ lastFed' = NoShred
    /\ UNCHANGED <<current_slot, nfeeds, fed, dupFed, evicted, lib_strict, rvars, evars>>

\* cleanup_old_slots of both managers
Cleanup(current, lookback) ==
    /\ ~panicked
    /\ slotsL' = LocalCleanup(slotsL, current)
    /\ slotsU' = ManagerCleanup(slotsU, current, lookback)
    /\ evicted' = (evicted \/ slotsL' # slotsL \/ slotsU' # slotsU)
    /\ outL' = NoOut
    /\ outU' = NoOut
    /\ lastFed' = NoShred
    /\ UNCHANGED <<current_slot, panicked, nfeeds, fed, dupFed, emL, emU, lib_strict, rvars, evars>>

DNext ==
    \/ \E sh \in ShredUniverse : Feed(sh)
    \/ \E slot \in SlotsFed : Retry(slot)
    \/ \E call \in CleanupCalls : Cleanup(call[1], call[2])

DeshredSpec == DInit /\ [][DNext]_vars

\* ------------------------------------------------------------------------
\* The relay datapath with the kernel
\* ------------------------------------------------------------------------

RelayInit ==
    /\ RInit
    /\ DStart
    /\ lib_strict = FALSE
    /\ XIdle /\ PIdle /\ LIdle /\ OIdle

RelayNext ==
    \/ RelayMainRaiseCaps /\ UNCHANGED <<dvars, evars>>
    \/ RelayRaiseCaps /\ UNCHANGED <<dvars, evars>>
    \/ RelayDropCaps /\ UNCHANGED <<dvars, evars>>
    \/ RelayPreFill /\ UNCHANGED <<dvars, evars>>
    \/ RelaySync /\ UNCHANGED <<dvars, evars>>
    \/ RelayCompletion /\ UNCHANGED <<dvars, evars>>
    \/ RelayRxRead /\ UNCHANGED <<dvars, evars>>
    \/ RelayProcess /\ UNCHANGED <<dvars, evars>>
    \/ RelayRefill /\ UNCHANGED <<dvars, evars>>
    \/ RelayFinalCommit /\ UNCHANGED <<dvars, evars>>
    \/ (\E kind \in PacketKinds : KernelReceive(kind)) /\ UNCHANGED <<dvars, evars>>
    \/ KernelTransmit /\ UNCHANGED <<dvars, evars>>
    \/ KernelRequestWakeup /\ UNCHANGED <<dvars, evars>>

RelaySpec == RelayInit /\ [][RelayNext]_vars

\* the steps of relay_loop: the loop busy-polls and never blocks
RelayLoopStep ==
    \/ RelayMainRaiseCaps \/ RelayRaiseCaps \/ RelayDropCaps
    \/ RelayPreFill \/ RelaySync \/ RelayCompletion \/ RelayRxRead
    \/ RelayProcess \/ RelayRefill \/ RelayFinalCommit

\* the free-running loop with a kernel that transmits what it may transmit
RelayLiveSpec ==
    /\ RelayInit
    /\ [][RelayNext]_vars
    /\ WF_vars(RelayLoopStep /\ UNCHANGED <<dvars, evars>>)
    /\ WF_vars(KernelTransmit /\ UNCHANGED <<dvars, evars>>)

\* a queue whose rings hold one descriptor more than a batch, a forwarding
\* target, and a kernel that delivers long UDP packets and transmits nothing
RelayBurstInit ==
    /\ RStart(MkCfg(<<TRUE, TRUE, TRUE, FALSE>>,
                    BATCH_SIZE + 1, 1, BATCH_SIZE + 1))
    /\ DStart
    /\ lib_strict = FALSE
    /\ XIdle /\ PIdle /\ LIdle /\ OIdle

RelayBurstNext ==
    \/ RelayLoopStep /\ UNCHANGED <<dvars, evars>>
    \/ KernelReceive([len |-> HEADER_SIZE + VOTE_SIZE_THRESHOLD,
                      proto |-> IPPROTO_UDP]) /\ UNCHANGED <<dvars, evars>>

RelayBurstSpec == RelayBurstInit /\ [][RelayBurstNext]_vars

\* ------------------------------------------------------------------------
\* Properties of the relay datapath
\* ------------------------------------------------------------------------

\* how often x occurs in the sequence q
Occurrences(q, x) == Cardinality({ k \in 1..Len(q) : q[k] = x })

\* how often x is the frame of a descriptor in the sequence q
DescOccurrences(q, x) == Cardinality({ k \in 1..Len(q) : q[k].addr = x })

\* the number of owners of frame f: free pool, Fill ring, RX ring, the loop
\* while it processes the descriptor, TX ring, Completion ring
OwnerCount(f) ==
    Occurrences(umem_free, f) + Occurrences(fill.q, f)
    + DescOccurrences(rx_ring.q, f)
    + (IF held # NoDesc /\ held.addr = f THEN 1 ELSE 0)
    + DescOccurrences(tx_ring.q, f) + Occurrences(completion.q, f)

\* the number of frames over all owners
OwnedTotal ==
    Len(umem_free) + Len(fill.q) + Len(rx_ring.q)
    + (IF held # NoDesc THEN 1 ELSE 0)
    + Len(tx_ring.q) + Len(completion.q)

\* C1: in every reachable state of relay_loop with the kernel, each UMEM
\* frame is in exactly one of free pool, Fill ring, RX ring, held by the
\* loop, TX ring, Completion ring, and the owners together hold exactly
\* frame_count frames.
C1_FrameOwnedOnce ==
    /\ \A f \in Frames : OwnerCount(f) = 1
    /\ OwnedTotal = FrameCount

\* C1 witness: the loop holds a frame it is processing while a forwarded
\* frame waits in the TX ring, a transmitted one waits in the Completion
\* ring, and further frames are in the Fill ring and in the free pool.
C1_Witness ==
    /\ held # NoDesc
    /\ Len(tx_ring.q) > 0
    /\ Len(completion.q) > 0
    /\ Len(fill.q) > 0
    /\ Len(umem_free) > 0

\* ------------------------------------------------------------------------
\* Properties of the reassemblers
\* ------------------------------------------------------------------------

\* the shreds of one slot fed so far
FedFor(slot) == { sh \in fed : sh.slot = slot }

\* the emissions of one slot in a log
EmFor(log, slot) == SelectSeq(log, LAMBDA e : e.slot = slot)

SetMax(S) == CHOOSE m \in S : \A x \in S : x <= m

\* whether shreds[idx] holds a shred in a compact slot state
Present(st, idx) == idx < Len(st.shreds) /\ st.shreds[idx + 1] # NoShred

\* C2: with no eviction and no cleanup, every call returns the same in both
\* variants: an emission in one iff in the other, with the same slot, index
\* range and payload.
C2_SameOutputs == (~evicted /\ ~panicked) => outL = outU

\* C3: every index stored in segment_ends of a compact slot state is at least
\* last_processed.
C3_EndsNotBelowLastProcessed ==
    \A i \in DOMAIN slotsL :
        \A k \in 1..Len(slotsL[i].segment_ends) :
            slotsL[i].segment_ends[k] >= slotsL[i].last_processed

\* C4: an emitted segment [start, end] ends at an index that a data shred
\* with a completion flag was fed for, and right after the emission every
\* index of [start, end] is marked as received in the slot state that emitted.
C4_EmittedSegmentReceived ==
    /\ outL # NoOut =>
          /\ \E sh \in FedFor(outL.slot) :
                sh.index = outL.end /\ sh.type = "Data" /\ sh.complete
          /\ \A i \in outL.start..outL.end :
                i \in slotsL[SlotIdx(outL.slot)].received_mask
    /\ outU # NoOut =>
          /\ \E sh \in FedFor(outU.slot) :
                sh.index = outU.end /\ sh.type = "Data" /\ sh.complete
          /\ \A i \in outU.start..outU.end : HasData(slotsU[outU.slot], i)

\* two emissions of a log that cover a common index of the same slot
Overlapping(log) ==
    \E a, b \in 1..Len(log) :
        /\ a < b
        /\ log[a].slot = log[b].slot
        /\ (log[a].start..log[a].end) \cap (log[b].start..log[b].end) # {}

\* C5: without eviction, each index of a slot is contained in at most one
\* emitted segment, in both variants.
C5_NoIndexEmittedTwice ==
    (~evicted) => (~Overlapping(emL) /\ ~Overlapping(emU))

\* C6: an add_shred call with the shred of the add_shred call right before it
\* changes neither manager and returns nothing.
C6_SecondFeedIsNoOp ==
    [][ (nfeeds' = nfeeds + 1 /\ lastFed' = lastFed)
            => (/\ slotsL' = slotsL /\ outL' = NoOut
                /\ slotsU' = slotsU /\ outU' = NoOut) ]_vars

\* a slot all of whose fed shreds are data shreds with well-formed bytes, one
\* shred for each index
WellFormed(slot) ==
    \A sh \in FedFor(slot) :
        /\ sh.type = "Data"
        /\ sh.body # 0
        /\ sh.index < MAX_SHREDS_PER_SLOT
        /\ \A other \in FedFor(slot) : other.index = sh.index => other = sh

Terminators(slot) == { sh.index : sh \in { x \in FedFor(slot) : x.complete } }

DeliveredUpTo(slot, e) == \A i \in 0..e : \E sh \in FedFor(slot) : sh.index = i

\* the first index of the canonical segment ending at terminator e
SegmentStart(slot, e) ==
    LET lower == { t \in Terminators(slot) : t < e }
    IN  IF lower = {} THEN 0 ELSE SetMax(lower) + 1

EmittedIn(log, slot, start, end) ==
    \E k \in 1..Len(log) :
        log[k].slot = slot /\ log[k].start = start /\ log[k].end = end

\* C7: without eviction, once every data shred with index in [0, e] of a slot
\* has been delivered, e being a terminator, the segment ending at e has been
\* emitted, by both managers.
C7_CompleteSegmentEmitted ==
    (~evicted) =>
        \A slot \in SlotsFed :
            WellFormed(slot) =>
                \A e \in Terminators(slot) :
                    DeliveredUpTo(slot, e) =>
                        /\ EmittedIn(emL, slot, SegmentStart(slot, e), e)
                        /\ EmittedIn(emU, slot, SegmentStart(slot, e), e)

\* the data shreds 0..e of a slot whose only terminator is e
SingleSegment(slot, e) ==
    { MkShred(slot, i, "Data", i = e, i + 1) : i \in 0..e }

\* what is emitted for it: the bodies in index order
SingleSegmentEmission(slot, e) ==
    [slot |-> slot, start |-> 0, end |-> e,
     entries |-> [k \in 1..(e + 1) |-> [entry |-> k]],
     payload |-> [k \in 1..(e + 1) |-> k]]

\* C8: for a fresh slot fed, each shred once and in any order, shreds of the
\* segment [0, e] whose only terminator is e, both managers have emitted
\* nothing while a shred is missing and exactly one segment, [0, e] with the
\* bodies in index order, once the last one arrived, whatever deshred
\* attempts followed.
C8_OneEmissionAnyOrder ==
    \A e \in 0..MaxIdx :
        (~evicted /\ ~dupFed /\ FedFor(MainSlot) \subseteq SingleSegment(MainSlot, e))
            => LET want == IF FedFor(MainSlot) = SingleSegment(MainSlot, e)
                           THEN <<SingleSegmentEmission(MainSlot, e)>>
                           ELSE <<>>
               IN  /\ EmFor(emL, MainSlot) = want
                   /\ EmFor(emU, MainSlot) = want

\* C8 witness: the segment [0, 1] arrived, was emitted, and a later deshred
\* attempt returned nothing
C8_Witness ==
    /\ ~evicted /\ ~dupFed
    /\ FedFor(MainSlot) = SingleSegment(MainSlot, 1)
    /\ Len(emL) = 1 /\ Len(emU) = 1
    /\ nfeeds = 2 /\ lastFed = NoShred /\ outL = NoOut /\ outU = NoOut

\* C9 as stated: bit i of received_mask is set iff shreds[i] holds a shred,
\* and the number of set bits is the number of shreds held.
C9_MaskIffPresent ==
    \A i \in DOMAIN slotsL :
        LET st == slotsL[i]
        IN  /\ \A idx \in st.received_mask \cup (0..(Len(st.shreds) - 1)) :
                  idx \in st.received_mask <=> Present(st, idx)
            /\ Cardinality(st.received_mask)
                  = Cardinality({ idx \in 0..(Len(st.shreds) - 1) : Present(st, idx) })

\* C9 amended: bit i of received_mask is set iff shreds[i] holds a shred or
\* i is below last_processed (it was emitted and cleared); no shred is held
\* below last_processed, so the number of set bits is the number of shreds
\* held plus last_processed.
C9_MaskIffPresentOrEmitted ==
    \A i \in DOMAIN slotsL :
        LET st == slotsL[i]
        IN  /\ \A idx \in st.received_mask \cup (0..(Len(st.shreds) - 1)) :
                  idx \in st.received_mask
                      <=> (Present(st, idx) \/ idx < st.last_processed)
            /\ Cardinality(st.received_mask)
                  = Cardinality({ idx \in 0..(Len(st.shreds) - 1) : Present(st, idx) })
                    + st.last_processed

\* C9 witness: a slot state that emitted a segment and holds a later shred
C9_Witness ==
    \E i \in DOMAIN slotsL :
        /\ slotsL[i].last_processed > 0
        /\ \E idx \in slotsL[i].received_mask :
              idx >= slotsL[i].last_processed /\ Present(slotsL[i], idx)
        /\ \E idx \in slotsL[i].received_mask : ~Present(slotsL[i], idx)

\* C10: a bit of received_mask is set only if a data shred with that index
\* was fed for the slot, the data shred tables hold no code shred, and the
\* unbounded variant holds a data shred only where one was fed.
C10_CodeSeparateFromData ==
    /\ \A i \in DOMAIN slotsL :
          /\ \A idx \in slotsL[i].received_mask :
                \E sh \in FedFor(slotsL[i].slot) :
                    sh.index = idx /\ sh.type = "Data"
          /\ \A k \in 1..Len(slotsL[i].shreds) :
                slotsL[i].shreds[k] # NoShred => slotsL[i].shreds[k].type = "Data"
    /\ \A s \in DOMAIN slotsU :
          \A idx \in DOMAIN slotsU[s].data_shreds :
              slotsU[s].data_shreds[idx].type = "Data"

\* whether the segment at the head of segment_ends has every index from
\* last_processed on marked received
HeadSegmentReceived(st) ==
    /\ st.segment_ends # <<>>
    /\ \A idx \in st.last_processed..Head(st.segment_ends) :
          idx \in st.received_mask

\* C11: last_processed of a slot state never decreases from one call to the
\* next, as long as the window entry keeps holding the state of that slot,
\* also when terminators arrive out of index order.
C11_LastProcessedMonotone ==
    [][\A i \in DOMAIN slotsL \cap DOMAIN slotsL' :
          slotsL'[i].slot = slotsL[i].slot =>
              slotsL'[i].last_processed >= slotsL[i].last_processed]_vars

\* C11 witness: terminators arrived out of index order and last_processed
\* has advanced past a segment end that is still pending
C11_Witness ==
    \E i \in DOMAIN slotsL :
        /\ slotsL[i].segment_ends # <<>>
        /\ slotsL[i].last_processed > Head(slotsL[i].segment_ends)
        /\ slotsL[i].last_processed > 0

\* C12: a deshred attempt that emits nothing leaves the slot state as it
\* was: a try_deshred call on its own changes nothing, and inside add_shred
\* the state is the one add_shred stored the shred into; in both variants.
C12_FailedAttemptKeepsState ==
    [][/\ (lastFed' = NoShred /\ ~panicked'
            /\ DOMAIN slotsL' = DOMAIN slotsL /\ DOMAIN slotsU' = DOMAIN slotsU)
           => /\ outL' = NoOut => slotsL' = slotsL
              /\ outU' = NoOut => slotsU' = slotsU
       /\ (lastFed' # NoShred /\ ~panicked')
           => /\ outL' = NoOut =>
                    slotsL'[SlotIdx(lastFed'.slot)] =
                        CompactAddShred(LocalEntry(slotsL, lastFed'.slot), lastFed').st
              /\ outU' = NoOut =>
                    slotsU'[lastFed'.slot] =
                        SlotShredsAddShred(ManagerEntry(slotsU, lastFed'.slot), lastFed').st
      ]_vars

\* C12 witness: after a try_deshred call on its own that emitted nothing, a
\* segment with every shred received is still pending in both variants (its
\* deshred or deserialization failed)
C12_Witness ==
    /\ lastFed = NoShred /\ nfeeds > 0 /\ ~panicked
    /\ outL = NoOut /\ outU = NoOut
    /\ \E i \in DOMAIN slotsL :
          /\ HeadSegmentReceived(slotsL[i])
          /\ slotsL[i].slot \in DOMAIN slotsU
          /\ FindCompleteSegment(slotsU[slotsL[i].slot]).found
          /\ \A k \in 0..Head(slotsL[i].segment_ends) :
                HasData(slotsU[slotsL[i].slot], k)

\* C13: after DeshredManagerLocal.add_shred for a shred of slot s, entry
\* s mod W holds a state of slot s; when it held another slot before, nothing
\* of the previous state is left (the entry is what add_shred makes of a
\* fresh state); every other entry is unchanged; and every occupied entry i
\* holds a slot with slot mod W = i.
C13_WindowEntryReplaced ==
    /\ [](\A i \in DOMAIN slotsL : SlotIdx(slotsL[i].slot) = i)
    /\ [][lastFed' # NoShred =>
            LET s == lastFed'.slot
                i == SlotIdx(s)
            IN  /\ DOMAIN slotsL' = DOMAIN slotsL \cup {i}
                /\ slotsL'[i].slot = s
                /\ LocalEvicts(slotsL, s) =>
                      slotsL'[i] = LocalAddShred(EmptyMap, lastFed').slots[i]
                /\ \A j \in DOMAIN slotsL \ {i} : slotsL'[j] = slotsL[j]]_vars

\* C13 witness: the state of MainSlot, which had a segment end pending, was
\* replaced by a state of the slot one window further
C13_Witness ==
    /\ evicted
    /\ \E sh \in fed : sh.slot = MainSlot /\ sh.complete /\ sh.index > 0
    /\ SlotIdx(MainSlot) \in DOMAIN slotsL
    /\ slotsL[SlotIdx(MainSlot)].slot = MainSlot + SLOT_WINDOW_SIZE

\* ------------------------------------------------------------------------
\* Properties of the RX loop body and of the commits
\* ------------------------------------------------------------------------

\* this step is the RX loop body working on the descriptor held
ProcessStep == pc = "process" /\ pc' = "rx"

\* the descriptor held is at least 442 bytes long and its protocol byte is 17
PassesFilters ==
    /\ held.len >= 14 + 20 + 8 + 400
    /\ mem[held.addr].proto = 17

\* the frame held goes back: to the Fill ring when it has room, to the free
\* pool otherwise, and to no other place
FrameGoesBack ==
    /\ tx_ring'.q = tx_ring.q
    /\ IF ProducerAvailable(fill, FillCap) > 0
       THEN fill'.q = Append(fill.q, held.addr) /\ umem_free' = umem_free
       ELSE fill'.q = fill.q /\ umem_free' = Append(umem_free, held.addr)

\* C14: with a forwarding target configured and room in the TX ring, a
\* descriptor that passes both filters puts exactly one descriptor on the TX
\* ring, with the frame offset and the length of the RX descriptor; the frame
\* goes nowhere else, its headers are rewritten, its UDP payload and every
\* other frame are unchanged.
C14_ForwardSameFrame ==
    [][(ProcessStep /\ PassesFilters /\ Forwarding(cfg)
        /\ ProducerAvailable(tx_ring, TxCap) > 0)
        => /\ tx_ring'.q = Append(tx_ring.q, [addr |-> held.addr, len |-> held.len])
           /\ fill'.q = fill.q
           /\ umem_free' = umem_free
           /\ mem'[held.addr].hdr = "rewritten"
           /\ mem'[held.addr].payload = mem[held.addr].payload
           /\ mem'[held.addr].len = mem[held.addr].len
           /\ \A f \in Frames \ {held.addr} : mem'[f] = mem[f]]_vars

\* C14 witness: a descriptor of a packet that passed the filters is on the TX
\* ring with its headers rewritten and the payload the kernel received
C14_Witness ==
    \E k \in 1..Len(tx_ring.q) :
        /\ tx_ring.q[k].len = mem[tx_ring.q[k].addr].len
        /\ tx_ring.q[k].len >= 14 + 20 + 8 + 400
        /\ mem[tx_ring.q[k].addr].hdr = "rewritten"
        /\ mem[tx_ring.q[k].addr].payload > 0

\* C15: with dest_ip and dest_port supplied, a descriptor that passes both
\* filters is put on the TX ring when it has room, whether or not a dest_mac
\* was supplied or found by the route lookup.
C15_ForwardWithoutMac ==
    [][(ProcessStep /\ PassesFilters /\ cfg.dest_ip /\ cfg.dest_port
        /\ ProducerAvailable(tx_ring, TxCap) > 0)
        => tx_ring'.q = Append(tx_ring.q, TxFrame(held))]_vars

InDescs(q, f) == \E k \in 1..Len(q) : q[k].addr = f

\* whether frame f is in the sequence q
InSeq(q, f) == \E k \in 1..Len(q) : q[k] = f

C20_TxEventuallyCompleted ==
    \A f \in 0..((RxSize + TxSize) * 2 - 1) :
        InDescs(tx_ring.q, f) ~> InSeq(umem_free, f)

\* C21: between two syncs of the rings the loop reads at most 32 RX
\* descriptors.
C21_AtMostBatchPerIteration == iter_reads <= 32

\* the arrival number of the packet in the frame of descriptor d
Arrival(d) == mem[d.addr].payload

\* whether the arrival numbers along the descriptor sequence q go up
Ascending(q) == \A j, k \in 1..Len(q) : j < k => Arrival(q[j]) < Arrival(q[k])

\* whether every arrival number in sequence p is below every one in q
AllBefore(p, q) ==
    \A j \in 1..Len(p), k \in 1..Len(q) : Arrival(p[j]) < Arrival(q[k])

\* the Completion ring as a sequence of descriptors
CompletionDescs == [k \in 1..Len(completion.q) |-> [addr |-> completion.q[k]]]

\* the descriptor held, as a sequence
HeldDescs == IF held = NoDesc THEN <<>> ELSE <<held>>

\* C22: descriptors are read from the RX ring in the order the kernel
\* produced them (the n-th descriptor read is the n-th packet received), and
\* the descriptors put on the TX ring are in the order of their reads:
\* transmitted frames, then the TX ring from head to tail, then the
\* descriptor held, then the RX ring from head to tail.
C22_FifoOrder ==
    /\ held # NoDesc => Arrival(held) = total_packets
    /\ Ascending(rx_ring.q)
    /\ Ascending(tx_ring.q)
    /\ Ascending(CompletionDescs)
    /\ AllBefore(CompletionDescs, tx_ring.q)
    /\ AllBefore(tx_ring.q, HeldDescs)
    /\ AllBefore(HeldDescs, rx_ring.q)

\* C22 witness: a descriptor waits on the TX ring, an earlier one was
\* transmitted, and a later one is held
C22_Witness ==
    /\ Len(tx_ring.q) >= 1
    /\ Len(completion.q) >= 1
    /\ held # NoDesc

\* C23: on every ring the entries produced and not yet consumed, together
\* with the slots the producer cannot use yet, never exceed the capacity,
\* and the published or seen part is within the entries; a write to a full
\* TX ring and a read from an empty RX or Completion ring leave the ring as
\* it was.
C23_RingBounds ==
    /\ [](/\ fill.pub \in 0..Len(fill.q)
          /\ Len(fill.q) + fill.stale <= cfg.rx_size
          /\ tx_ring.pub \in 0..Len(tx_ring.q)
          /\ Len(tx_ring.q) + tx_ring.stale <= cfg.tx_size
          /\ rx_ring.seen \in 0..Len(rx_ring.q)
          /\ Len(rx_ring.q) + rx_ring.unrel <= cfg.rx_size
          /\ completion.seen \in 0..Len(completion.q)
          /\ Len(completion.q) + completion.unrel <= cfg.tx_size * 2)
    /\ [][/\ (ProcessStep /\ Len(tx_ring.q) + tx_ring.stale = cfg.tx_size)
               => tx_ring' = tx_ring
          /\ (pc = "rx" /\ pc' = "refill") => (rx_ring.seen = 0 /\ rx_ring' = rx_ring)
          /\ (pc = "completion" /\ pc' = "rx")
               => (completion.seen = 0 /\ completion' = completion)]_vars

\* C23 witness: the TX ring is full while the loop holds a descriptor to
\* forward, and the RX ring has nothing to read
C23_Witness ==
    /\ pc = "process"
    /\ Forwarding(cfg) /\ PassesFilters
    /\ Len(tx_ring.q) = cfg.tx_size
    /\ rx_ring.seen = 0

\* C24: once the socket is created and the loop runs, CAP_SYS_NICE is the
\* only capability in the effective set.
C24_OnlySysNiceLeft ==
    pc \notin {"main", "raise", "socket"} => caps = {"CAP_SYS_NICE"}

\* ------------------------------------------------------------------------
\* The XDP classifier (xdp-ebpf/src/main.rs)
\* ------------------------------------------------------------------------

\* XskMap::with_max_entries(64, 0)
XSKS_MAP_ENTRIES == 64

\* the hardware queue indices a packet arrives on
Queues == {0, 1, 2, 3, XSKS_MAP_ENTRIES - 1, XSKS_MAP_ENTRIES}

\* XSKS_MAP.redirect(queue_id, 0): the helper looks the index up and answers
\* XDP_REDIRECT when a socket is there, and the low bits of the flags, which
\* are 0 (XDP_ABORTED), when not
XskRedirect(map, queue_id) ==
    IF queue_id \in map THEN [ok |-> TRUE, code |-> "XDP_REDIRECT"]
    ELSE [ok |-> FALSE, code |-> "XDP_ABORTED"]

\* lines 30-42
try_xdp_redirect(map, queue_id) ==
    LET r == XskRedirect(map, queue_id)
    IN  IF r.ok THEN [ok |-> TRUE, ret |-> "XDP_REDIRECT"]
        ELSE [ok |-> FALSE, ret |-> "none"]

\* slip: the failure of the helper is handed to the kernel as it is
xdp_redirect_Aborted(map, queue_id) ==
    LET r == try_xdp_redirect(map, queue_id)
    IN  IF r.ok THEN r.ret ELSE "XDP_ABORTED"

\* lines 22-28
xdp_redirect(map, queue_id) ==
    LET r == try_xdp_redirect(map, queue_id)
    IN  IF r.ok THEN r.ret ELSE "XDP_PASS"

\* relay_loop.rs 120-127: a relay registers its socket for its queue
InsertSocket(queue_id) ==
    /\ queue_id < XSKS_MAP_ENTRIES
    /\ queue_id \notin xsks_map
    /\ xsks_map' = xsks_map \cup {queue_id}
    /\ UNCHANGED <<xdp_queue, xdp_helper, xdp_ret>>

\* a packet arrives on a hardware queue and the classifier runs
XdpPacket(queue_id) ==
    /\ xdp_queue' = queue_id
    /\ xdp_helper' = XskRedirect(xsks_map, queue_id).code
    /\ xdp_ret' = xdp_redirect(xsks_map, queue_id)
    /\ UNCHANGED xsks_map

ClassifierInit ==
    /\ XIdle /\ PIdle /\ LIdle /\ OIdle
    /\ RIdle
    /\ DStart
    /\ lib_strict = FALSE

ClassifierNext ==
    \/ \E q \in Queues : InsertSocket(q) /\ UNCHANGED <<dvars, rvars, pvars, lvars, ovars>>
    \/ \E q \in Queues : XdpPacket(q) /\ UNCHANGED <<dvars, rvars, pvars, lvars, ovars>>

ClassifierSpec == ClassifierInit /\ [][ClassifierNext]_vars

\* C25: the classifier answers XDP_REDIRECT or XDP_PASS and nothing else:
\* XDP_REDIRECT exactly when the redirect helper succeeded, XDP_PASS when it
\* failed, as it does when the packet's queue has no socket registered.
C25_RedirectOrPass ==
    xdp_ret # "none" =>
        /\ xdp_ret \in {"XDP_REDIRECT", "XDP_PASS"}
        /\ xdp_ret = "XDP_REDIRECT" <=> xdp_helper = "XDP_REDIRECT"
        /\ xdp_helper # "XDP_REDIRECT" => xdp_ret = "XDP_PASS"
        /\ xdp_queue \notin xsks_map => xdp_ret = "XDP_PASS"

\* C25 witness: sockets are registered, a packet came in on a queue without
\* one and was passed to the kernel stack
C25_Witness ==
    /\ xsks_map # {}
    /\ xdp_queue \notin xsks_map
    /\ xdp_helper = "XDP_ABORTED"
    /\ xdp_ret = "XDP_PASS"

\* ------------------------------------------------------------------------
\* parse_shred_type (examples/shred_processor.rs)
\* ------------------------------------------------------------------------

\* the lengths of the packets handed to parse_shred_type
ShredLens == {0, 64, 65, 82, 83, 84, 1203}

\* the values a byte takes
Bytes == 0..255

\* slip: the length test asks for byte 0x40 only
ParseShredType_ShortCheck(data) ==
    IF data.len < 65 THEN "None"
    ELSE LET upper_nibble == (data.b64 \div 16) * 16
         IN  CASE upper_nibble \in {128, 144, 176} -> "Data"
               [] upper_nibble \in {64, 96, 112} -> "Code"
               [] OTHER -> "None"

\* lines 58-81; upper_nibble = variant & 0xF0
ParseShredType(data) ==
    IF data.len < 83 THEN "None"
    ELSE LET upper_nibble == (data.b64 \div 16) * 16
         IN  CASE upper_nibble \in {128, 144, 176} -> "Data"
               [] upper_nibble \in {64, 96, 112} -> "Code"
               [] OTHER -> "None"

ParseInit ==
    /\ shred_len \in ShredLens
    /\ shred_b64 \in Bytes
    /\ shred_rest \in {0, 255}
    /\ shred_type = "unset"
    /\ XIdle /\ LIdle /\ OIdle
    /\ RIdle
    /\ DStart
    /\ lib_strict = FALSE

\* parse_shred_type is called on the packet
Parse ==
    /\ shred_type = "unset"
    /\ shred_type' = ParseShredType([len |-> shred_len, b64 |-> shred_b64,
                                     rest |-> shred_rest])
    /\ UNCHANGED <<shred_len, shred_b64, shred_rest>>

ParseNext == Parse /\ UNCHANGED <<dvars, rvars, xvars, lvars, ovars>>

ParseSpec == ParseInit /\ [][ParseNext]_vars

rx_unused == <<tx_ring, completion, held, batch_count, total_packets, mem, cfg,
               parsed, tx_wakeup, iter_reads>>

\* lines 75-77: the capabilities for the socket are raised
RxRaiseCaps ==
    /\ pc = "rx_loop"
    /\ caps' = caps \cup {"CAP_NET_ADMIN", "CAP_NET_RAW", "CAP_SYS_NICE"}
    /\ pc' = "rx_socket"
    /\ UNCHANGED <<umem_free, fill, rx_ring, rx_unused, lvars>>

\* lines 79-93: the socket is created and two capabilities are dropped
RxDropCaps ==
    /\ pc = "rx_socket"
    /\ caps' = caps \ {"CAP_NET_ADMIN", "CAP_NET_RAW"}
    /\ pc' = "rx_prefill"
    /\ UNCHANGED <<umem_free, fill, rx_ring, rx_unused, lvars>>

\* lines 96-107: the pre-fill loop and fill.commit
RxPreFill ==
    /\ pc = "rx_prefill"
    /\ LET p == PreFill(Min(ProducerAvailable(fill, FillCap), Len(umem_free)),
                        fill, umem_free)
       IN  /\ fill' = ProducerCommit(p.fill)
           /\ umem_free' = p.free
    /\ pc' = "rx_top"
    /\ UNCHANGED <<rx_ring, caps, rx_unused, lvars>>

\* slip: the exit flag is not looked at
RxTop_NoExit ==
    /\ pc = "rx_top"
    /\ pc' = "rx_sync"
    /\ UNCHANGED <<umem_free, fill, rx_ring, caps, rx_unused, lvars>>

\* lines 111-113: the exit flag is loaded at the top of the iteration
RxTop ==
    /\ pc = "rx_top"
    /\ pc' = IF exit THEN "returned" ELSE "rx_sync"
    /\ UNCHANGED <<umem_free, fill, rx_ring, caps, rx_unused, lvars>>

\* line 116: rx_ring.sync(false)
RxSync ==
    /\ pc = "rx_sync"
    /\ rx_ring' = ConsumerSync(rx_ring)
    /\ pc' = "rx_read"
    /\ UNCHANGED <<umem_free, fill, caps, rx_unused, lvars>>

\* lines 119-134: one turn of the RX drain; when the ring has nothing left,
\* rx_ring.commit and fill.sync(false)
RxRead ==
    /\ pc = "rx_read"
    /\ LET r == ConsumerRead(rx_ring)
       IN  IF r.ok
           THEN /\ rx_ring' = r.ring
                /\ rx_packets' = rx_packets + 1
                /\ rx_bytes' = rx_bytes + r.desc.len
                /\ umem_free' = UmemRelease(umem_free, r.desc.addr)
                /\ pc' = "rx_read"
                /\ UNCHANGED fill
           ELSE /\ rx_ring' = ConsumerCommit(rx_ring)
                /\ fill' = ProducerSync(fill)
                /\ pc' = "rx_refill"
                /\ UNCHANGED <<rx_packets, rx_bytes, umem_free>>
    /\ UNCHANGED <<caps, rx_unused, exit>>

\* lines 135-146: one turn of the refill loop; fill.commit when it ends
RxRefill ==
    /\ pc = "rx_refill"
    /\ LET r == UmemReserve(umem_free)
           w == ProducerWrite(fill, FillCap, r.frame)
       IN  IF ProducerAvailable(fill, FillCap) > 0 /\ r.ok
           THEN IF w.ok
                THEN /\ fill' = w.ring
                     /\ umem_free' = r.free
                     /\ pc' = "rx_refill"
                ELSE /\ fill' = ProducerCommit(fill)
                     /\ umem_free' = UmemRelease(r.free, r.frame)
                     /\ pc' = "rx_top"
           ELSE /\ fill' = ProducerCommit(fill)
                /\ pc' = "rx_top"
                /\ UNCHANGED umem_free
    /\ UNCHANGED <<rx_ring, caps, rx_unused, lvars>>

\* the steps of rx_loop
RxLoopStep ==
    \/ RxRaiseCaps \/ RxDropCaps \/ RxPreFill \/ RxTop \/ RxSync \/ RxRead
    \/ RxRefill

\* the owner of the exit flag stores into it
ExitStore(b) ==
    /\ exit # b
    /\ exit' = b
    /\ UNCHANGED <<rx_packets, rx_bytes>>

\* where relay_loop may stand
RelayPcs == {"main", "raise", "socket", "prefill", "sync", "completion", "rx",
             "process", "refill", "final"}

\* where rx_loop may stand before it returns
RxPcs == {"rx_loop", "rx_socket", "rx_prefill", "rx_top", "rx_sync", "rx_read",
          "rx_refill"}

\* one of the two programs starts: the relay, or rx_loop on a queue whose
\* socket has no TX side (frame_count = rx_size * 2)
LoopsInit ==
    /\ \/ RInit
       \/ RStartAt(MkCfg(<<FALSE, FALSE, FALSE, FALSE>>, RxSize, 0, MaxPackets),
                   "rx_loop")
    /\ DStart
    /\ lib_strict = FALSE
    /\ XIdle /\ PIdle /\ LIdle /\ OIdle

LoopsNext ==
    \/ RelayLoopStep /\ UNCHANGED <<dvars, evars>>
    \/ RxLoopStep /\ UNCHANGED <<dvars, xvars, pvars, ovars>>
    \/ (\E kind \in PacketKinds : KernelReceive(kind)) /\ UNCHANGED <<dvars, evars>>
    \/ KernelTransmit /\ UNCHANGED <<dvars, evars>>
    \/ KernelRequestWakeup /\ UNCHANGED <<dvars, evars>>
    \/ (\E b \in BOOLEAN : ExitStore(b)) /\ UNCHANGED <<dvars, rvars, xvars, pvars, ovars>>

\* both loops busy-poll: the thread that runs one keeps taking steps
LoopsSpec ==
    /\ LoopsInit
    /\ [][LoopsNext]_vars
    /\ WF_vars(RelayLoopStep /\ UNCHANGED <<dvars, evars>>)
    /\ WF_vars(RxLoopStep /\ UNCHANGED <<dvars, xvars, pvars, ovars>>)

\* C27: rx_loop returns only from the top of an iteration with the exit flag
\* set; when the exit flag is set and stays set, rx_loop eventually returns;
\* relay_loop never leaves its loop.
C27_ReturnOnlyOnExit ==
    /\ [][(pc # "returned" /\ pc' = "returned") => (pc = "rx_top" /\ exit)]_vars
    /\ (pc \in RxPcs /\ <>[]exit) => <>(pc = "returned")
    /\ [][(pc \in RelayPcs) => (pc' \in RelayPcs)]_vars

\* C27 witness: rx_loop received packets and then returned
C27_Witness ==
    /\ pc = "returned"
    /\ exit
    /\ rx_packets > 0

\* ------------------------------------------------------------------------
\* Further properties of the reassemblers
\* ------------------------------------------------------------------------

\* C28: no add_shred call and no try_deshred_fast call panics, whatever the
\* order in which the terminators of a slot arrived.
C28_NeverPanics == ~panicked

\* the terminators fed for a slot with index in [start, end]
TerminatorsIn(slot, start, end) == Terminators(slot) \cap (start..end)

\* whether the emissions of a slot in a log are canonical segments: each has
\* one terminator, at its end, the first starts at 0 and each next one starts
\* right after the one before
Canonical(log, slot) ==
    LET es == EmFor(log, slot)
    IN  \A k \in 1..Len(es) :
            /\ TerminatorsIn(slot, es[k].start, es[k].end) = {es[k].end}
            /\ es[k].start = IF k = 1 THEN 0 ELSE es[k - 1].end + 1

\* C29: without eviction, for a slot fed with one well-formed data shred per
\* index, every emitted range holds exactly one terminator, at its last
\* index, and the emissions of the slot are contiguous from index 0 on, in
\* both variants.
C29_CanonicalSegments ==
    (~evicted) =>
        \A slot \in SlotsFed :
            WellFormed(slot) => (Canonical(emL, slot) /\ Canonical(emU, slot))

\* C30: an add_shred call with an index of 512 or more leaves the compact
\* slot state as it was found (or empty), returns nothing and does not
\* panic; an add_shred call of a data shred with an index of 32768 or more
\* does the same in the unbounded variant.
C30_OverCapacityRejected ==
    [][(nfeeds' = nfeeds + 1) =>
          LET sh == lastFed'
          IN  /\ sh.index >= 512 =>
                    /\ slotsL'[SlotIdx(sh.slot)] = LocalEntry(slotsL, sh.slot)
                    /\ outL' = NoOut
                    /\ emL' = emL
                    /\ ~panicked'
              /\ (sh.type = "Data" /\ sh.index >= 32768) =>
                    /\ slotsU'[sh.slot] = ManagerEntry(slotsU, sh.slot)
                    /\ outU' = NoOut
                    /\ emU' = emU]_vars

\* C30 witness: a data shred with index 32768 was just handed to both
\* managers, whose states of its slot hold earlier shreds
C30_Witness ==
    /\ lastFed # NoShred
    /\ lastFed.type = "Data"
    /\ lastFed.index = 32768
    /\ SlotIdx(lastFed.slot) \in DOMAIN slotsL
    /\ slotsL[SlotIdx(lastFed.slot)].slot = lastFed.slot
    /\ slotsL[SlotIdx(lastFed.slot)].received_mask # {}
    /\ lastFed.slot \in DOMAIN slotsU
    /\ DOMAIN slotsU[lastFed.slot].data_shreds # {}

\* C31: a cleanup_old_slots(current) call of the local manager leaves no
\* window entry with a slot below current - 128 (0 when current < 128) and
\* keeps every other entry as it was; a cleanup_old_slots(current, lookback)
\* call of the unbounded manager keeps exactly the slots at or above
\* current - lookback (0 when current < lookback), each as it was.
C31_CleanupKeepsRecent ==
    [][\A call \in CleanupCalls :
          Cleanup(call[1], call[2]) =>
              LET thrL == IF call[1] >= 128 THEN call[1] - 128 ELSE 0
                  thrU == IF call[1] >= call[2] THEN call[1] - call[2] ELSE 0
              IN  /\ \A i \in DOMAIN slotsL' : slotsL'[i].slot >= thrL
                  /\ \A i \in DOMAIN slotsL :
                        slotsL[i].slot >= thrL =>
                            (i \in DOMAIN slotsL' /\ slotsL'[i] = slotsL[i])
                  /\ DOMAIN slotsU' = { s \in DOMAIN slotsU : s >= thrU }
                  /\ \A s \in DOMAIN slotsU' : slotsU'[s] = slotsU[s]]_vars

\* C31 witness: after a cleanup the slot next to the main slot is gone from
\* both managers and the colliding later slot is still held by both
C31_Witness ==
    /\ lastFed = NoShred
    /\ FedFor(MainSlot + 1) # {}
    /\ SlotIdx(MainSlot + 1) \notin DOMAIN slotsL
    /\ (MainSlot + 1) \notin DOMAIN slotsU
    /\ SlotIdx(MainSlot + SLOT_WINDOW_SIZE) \in DOMAIN slotsL
    /\ slotsL[SlotIdx(MainSlot + SLOT_WINDOW_SIZE)].slot = MainSlot + SLOT_WINDOW_SIZE
    /\ (MainSlot + SLOT_WINDOW_SIZE) \in DOMAIN slotsU

\* ------------------------------------------------------------------------
\* Further properties of the relay datapath
\* ------------------------------------------------------------------------

\* C33: when an iteration of the main loop ends (the loop stands before the
\* next sync), every descriptor read from RX has its consumer index
\* published and every descriptor written to TX or Fill is published.
C33_NothingLeftUncommitted ==
    pc = "sync" =>
        /\ rx_ring.unrel = 0
        /\ tx_ring.pub = Len(tx_ring.q)
        /\ fill.pub = Len(fill.q)

\* C34: on the steps of the loop, a turn of the Completion drain takes the
\* oldest entry seen and puts its frame on the free pool, and the drain
\* ends with nothing seen left; a
\* turn of the refill moves the frame on top of the free pool to the Fill
\* ring, and the refill ends with the Fill ring full or the free pool empty;
\* no turn makes a frame owned twice or by nobody.
C34_DrainAndRefill ==
    [][RelayLoopStep =>
       /\ (pc = "completion" /\ pc' = "completion") =>
              /\ completion.seen > 0
              /\ completion'.q = Tail(completion.q)
              /\ completion'.seen = completion.seen - 1
              /\ umem_free' = Append(umem_free, Head(completion.q))
       /\ (pc = "completion" /\ pc' = "rx") =>
              (completion.seen = 0 /\ umem_free' = umem_free)
       /\ (pc = "refill" /\ pc' = "refill") =>
              /\ umem_free # <<>>
              /\ umem_free = Append(umem_free', umem_free[Len(umem_free)])
              /\ fill'.q = Append(fill.q, umem_free[Len(umem_free)])
       /\ (pc = "refill" /\ pc' = "final") =>
              /\ Len(fill.q) + fill.stale = cfg.rx_size \/ umem_free = <<>>
              /\ umem_free' = umem_free /\ fill' = fill
       /\ (pc \in {"completion", "refill"}) =>
              \A f \in Frames : OwnerCount(f)' = 1]_vars

\* C34 witness: in one iteration frames came back from the Completion ring
\* and the refill has ended with the Fill ring full
C34_Witness ==
    /\ pc = "final"
    /\ completion.unrel > 0
    /\ Len(fill.q) + fill.stale = cfg.rx_size
    /\ Len(fill.q) > fill.pub

\* C36: an add_shred call of the local manager with a shred it does not
\* accept (index of 512 or more, or index already marked in the state of
\* its slot) leaves the slot window as it was.
C36_RejectedLeavesWindow ==
    [][(nfeeds' = nfeeds + 1) =>
          LET sh == lastFed'
              i == SlotIdx(sh.slot)
              dup == /\ i \in DOMAIN slotsL
                     /\ slotsL[i].slot = sh.slot
                     /\ sh.index \in slotsL[i].received_mask
          IN  (sh.index >= 512 \/ dup) => slotsL' = slotsL]_vars

\* C37: while a window entry keeps holding the state of a slot whose
\* segment_ends has a head, a call that emits for that slot emits the range
\* ending at that head, and a call that does not emit leaves the head where
\* it is.
C37_HeadNeverSkipped ==
    [][\A i \in DOMAIN slotsL :
          (/\ slotsL[i].segment_ends # <<>>
           /\ i \in DOMAIN slotsL'
           /\ slotsL'[i].slot = slotsL[i].slot
           /\ slotsL'[i].received_mask # {}) =>
              LET h == Head(slotsL[i].segment_ends)
              IN  IF emL' # emL
                  THEN emL'[Len(emL')].slot = slotsL[i].slot
                          => emL'[Len(emL')].end = h
                  ELSE /\ slotsL'[i].segment_ends # <<>>
                       /\ Head(slotsL'[i].segment_ends) = h]_vars

\* C37 witness: a head segment with every shred received failed to deshred,
\* a later terminator is queued behind it, and nothing was emitted
C37_Witness ==
    /\ ~panicked
    /\ emL = <<>>
    /\ \E i \in DOMAIN slotsL :
          /\ HeadSegmentReceived(slotsL[i])
          /\ Len(slotsL[i].segment_ends) >= 2

\* ------------------------------------------------------------------------
\* DeshredManagerSharded (examples/deshred_sharded.rs)
\* ------------------------------------------------------------------------

\* the shreds the dispatcher hands out: the data shreds of the main slot
ShardShreds ==
    { sh \in ShredUniverse :
        sh.slot = MainSlot /\ sh.type = "Data" /\ sh.index <= MaxIdx }

\* what one add_shred call through get_local(w) makes of worker w: its
\* manager, its history, whether its thread panicked
WorkerAddShred(w, sh) ==
    LET l == LocalAddShred(managers[w].slots, sh)
    IN  [manager |-> [slots |-> l.slots, current_slot |-> sh.slot],
         em |-> Emit(emS[w], l.out),
         panic |-> l.panic]

\* slip: get_local hands out one manager whatever the thread id
ShardedAddShred_OneManager(w, sh) ==
    /\ w \notin dead
    /\ sfeeds < MaxFeeds
    /\ LET r == WorkerAddShred(w, sh)
       IN  /\ managers' = [x \in Workers |-> r.manager]
           /\ emS' = [emS EXCEPT ![w] = r.em]
           /\ dead' = IF r.panic THEN dead \cup {w} ELSE dead
    /\ routed' = [routed EXCEPT ![w] = @ \cup {sh}]
    /\ last_worker' = w
    /\ sfeeds' = sfeeds + 1

\* get_local(w).add_shred(sh); sfeeds counts the calls
ShardedAddShred(w, sh) ==
    /\ w \notin dead
    /\ sfeeds < MaxFeeds
    /\ LET r == WorkerAddShred(w, sh)
       IN  /\ managers' = [managers EXCEPT ![w] = r.manager]
           /\ emS' = [emS EXCEPT ![w] = r.em]
           /\ dead' = IF r.panic THEN dead \cup {w} ELSE dead
    /\ routed' = [routed EXCEPT ![w] = @ \cup {sh}]
    /\ last_worker' = w
    /\ sfeeds' = sfeeds + 1

ShardedInit ==
    /\ SIdle /\ TIdle /\ KIdle
    /\ XIdle /\ PIdle /\ LIdle
    /\ RIdle
    /\ DStart
    /\ lib_strict \in BOOLEAN

ShardedNext ==
    \E w \in Workers, sh \in ShardShreds :
        ShardedAddShred(w, sh)
            /\ UNCHANGED <<dvars, rvars, xvars, pvars, lvars, tvars, kvars>>

ShardedSpec == ShardedInit /\ [][ShardedNext]_vars

\* whether worker w was handed a shred for every index of [start, end]
HandedAll(w, start, end) ==
    \A idx \in start..end : \E sh \in routed[w] : sh.index = idx

\* C32: an add_shred call through get_local(w) leaves the manager and the
\* emissions of every other worker as they were; and a range of which no
\* single worker was handed every shred is emitted by no worker.
C32_WorkersIsolated ==
    /\ [][(sfeeds' = sfeeds + 1) =>
             \A x \in Workers \ {last_worker'} :
                 managers'[x] = managers[x] /\ emS'[x] = emS[x]]_vars
    /\ [](\A start \in 0..MaxIdx, end \in 0..MaxIdx :
            (\A w \in Workers : ~HandedAll(w, start, end)) =>
                \A w \in Workers : ~EmittedIn(emS[w], MainSlot, start, end))

\* C32 witness: shred 0 went to worker 0 only and the terminator 1 to worker
\* 1 only, a third call followed, and no worker has emitted anything
C32_Witness ==
    /\ sfeeds >= 3
    /\ dead = {}
    /\ HandedAll(0, 0, 0) /\ ~HandedAll(0, 1, 1)
    /\ HandedAll(1, 1, 1) /\ ~HandedAll(1, 0, 0)
    /\ \E sh \in routed[1] : sh.index = 1 /\ sh.complete
    /\ \A w \in Workers : emS[w] = <<>>

\* ------------------------------------------------------------------------
\* Shred statistics (examples/shred_processor.rs)
\* ------------------------------------------------------------------------

\* what the library parser makes of a payload: NoShred is its error
StatShreds ==
    { sh \in ShredUniverse : sh.slot = MainSlot /\ sh.index <= 1 }

\* PacketDataRef: the pre-parsed shred_type, whether the payload is below
\* the 83 bytes of the common header, and the shred the library parses
RefPackets ==
    { [pre |-> t, short |-> s, shred |-> sh] :
        t \in {"None", "Data", "Code"}, s \in BOOLEAN,
        sh \in StatShreds \cup {NoShred} }
    \ { p \in [pre : {"None", "Data", "Code"}, short : BOOLEAN,
               shred : StatShreds \cup {NoShred}] :
          p.short /\ p.shred # NoShred }

\* PacketData carries no pre-parsed type
LegacyPackets == { p \in RefPackets : p.pre = "None" }

\* parse_shred: payloads below 83 bytes are refused before the library runs
ParseShred(packet) == IF packet.short THEN NoShred ELSE packet.shred

\* slip: a packet known not to be a shred returns without counting an error
ProcessShredRef_SilentSkip(packet) ==
    /\ ~panicked
    /\ stats.received < MaxFeeds
    /\ last_packet' = [tag |-> "process_shred_ref", packet |-> packet]
    /\ IF packet.pre = "None"
       THEN /\ stats' = [stats EXCEPT !.received = @ + 1]
            /\ UNCHANGED <<slotsL, current_slot, panicked, outL, emL, evicted>>
       ELSE IF packet.shred = NoShred
       THEN /\ stats' = [stats EXCEPT !.received = @ + 1, !.errors = @ + 1]
            /\ UNCHANGED <<slotsL, current_slot, panicked, outL, emL, evicted>>
       ELSE LET l == LocalAddShred(slotsL, packet.shred)
            IN  /\ stats' = [stats EXCEPT
                       !.received = @ + 1,
                       !.decoded = @ + 1,
                       !.data_shreds = IF packet.pre = "Data" THEN @ + 1 ELSE @,
                       !.code_shreds = IF packet.pre = "Code" THEN @ + 1 ELSE @]
                /\ slotsL' = l.slots
                /\ current_slot' = packet.shred.slot
                /\ panicked' = l.panic
                /\ outL' = l.out
                /\ emL' = Emit(emL, l.out)
                /\ evicted' = (evicted \/ LocalEvicts(slotsL, packet.shred.slot))
    /\ UNCHANGED <<slotsU, outU, emU, nfeeds, lastFed, fed, dupFed, lib_strict>>

\* process_shred_ref with a DeshredManagerLocal behind the trait
ProcessShredRef(packet) ==
    /\ ~panicked
    /\ stats.received < MaxFeeds
    /\ last_packet' = [tag |-> "process_shred_ref", packet |-> packet]
    /\ IF packet.pre = "None"
       THEN /\ stats' = [stats EXCEPT !.received = @ + 1, !.errors = @ + 1]
            /\ UNCHANGED <<slotsL, current_slot, panicked, outL, emL, evicted>>
       ELSE IF packet.shred = NoShred
       THEN /\ stats' = [stats EXCEPT !.received = @ + 1, !.errors = @ + 1]
            /\ UNCHANGED <<slotsL, current_slot, panicked, outL, emL, evicted>>
       ELSE LET l == LocalAddShred(slotsL, packet.shred)
            IN  /\ stats' = [stats EXCEPT
                       !.received = @ + 1,
                       !.decoded = @ + 1,
                       !.data_shreds = IF packet.pre = "Data" THEN @ + 1 ELSE @,
                       !.code_shreds = IF packet.pre = "Code" THEN @ + 1 ELSE @]
                /\ slotsL' = l.slots
                /\ current_slot' = packet.shred.slot
                /\ panicked' = l.panic
                /\ outL' = l.out
                /\ emL' = Emit(emL, l.out)
                /\ evicted' = (evicted \/ LocalEvicts(slotsL, packet.shred.slot))
    /\ UNCHANGED <<slotsU, outU, emU, nfeeds, lastFed, fed, dupFed, lib_strict>>

\* process_shred with the DeshredManager behind its mutex
ProcessShred(packet) ==
    /\ stats.received < MaxFeeds
    /\ last_packet' = [tag |-> "process_shred", packet |-> packet]
    /\ LET shred == ParseShred(packet)
       IN  IF shred = NoShred
           THEN /\ stats' = [stats EXCEPT !.received = @ + 1, !.errors = @ + 1]
                /\ UNCHANGED <<slotsU, outU, emU, evicted>>
           ELSE LET u == ManagerAddShred(slotsU, shred)
                    cleanup == (stats.decoded + 1) % 1000 = 0
                IN  /\ stats' = [stats EXCEPT
                           !.received = @ + 1,
                           !.decoded = @ + 1,
                           !.data_shreds = IF shred.type = "Data" THEN @ + 1 ELSE @,
                           !.code_shreds = IF shred.type = "Code" THEN @ + 1 ELSE @]
                    /\ slotsU' = IF cleanup
                                 THEN ManagerCleanup(u.slots, shred.slot, 50)
                                 ELSE u.slots
                    /\ outU' = u.out
                    /\ emU' = Emit(emU, u.out)
                    /\ evicted' = (evicted \/ slotsU' # u.slots)
    /\ UNCHANGED <<slotsL, current_slot, panicked, outL, emL,
                   nfeeds, lastFed, fed, dupFed, lib_strict>>

StatsInit ==
    /\ SIdle /\ TIdle /\ KIdle
    /\ XIdle /\ PIdle /\ LIdle
    /\ RIdle
    /\ DStart
    /\ lib_strict \in BOOLEAN

StatsNext ==
    \/ \E packet \in RefPackets :
           ProcessShredRef(packet)
               /\ UNCHANGED <<rvars, xvars, pvars, lvars, svars, kvars>>
    \/ \E packet \in LegacyPackets :
           ProcessShred(packet)
               /\ UNCHANGED <<rvars, xvars, pvars, lvars, svars, kvars>>

StatsSpec == StatsInit /\ [][StatsNext]_vars

\* a packet that is no shred: one the caller or the library parser refuses
NonShred(last) ==
    /\ last.tag # "None"
    /\ \/ last.tag = "process_shred_ref" /\ last.packet.pre = "None"
       \/ last.tag = "process_shred" /\ last.packet.short
       \/ last.packet.shred = NoShred

\* C35: no counter ever decreases; after every completed call received =
\* decoded + errors and decoded = data_shreds + code_shreds; a call on a
\* non-shred packet adds exactly one to errors, leaves decoded alone, and
\* changes neither reassembler nor their emissions.
C35_StatsBalance ==
    /\ [](/\ stats.received = stats.decoded + stats.errors
          /\ stats.decoded = stats.data_shreds + stats.code_shreds)
    /\ [][/\ stats'.received >= stats.received
          /\ stats'.decoded >= stats.decoded
          /\ stats'.errors >= stats.errors
          /\ stats'.data_shreds >= stats.data_shreds
          /\ stats'.code_shreds >= stats.code_shreds]_vars
    /\ [][(stats'.received = stats.received + 1 /\ NonShred(last_packet')) =>
             /\ stats'.errors = stats.errors + 1
             /\ stats'.decoded = stats.decoded
             /\ slotsL' = slotsL /\ slotsU' = slotsU
             /\ emL' = emL /\ emU' = emU]_vars

\* C35 witness: three calls were made, data and code shreds were decoded,
\* and the last call was on a packet the caller had marked as no shred
C35_Witness ==
    /\ stats.received = 3
    /\ stats.data_shreds >= 1 /\ stats.code_shreds >= 1
    /\ stats.errors = 1
    /\ last_packet.tag = "process_shred_ref"
    /\ last_packet.packet.pre = "None"
    /\ last_packet.packet.shred # NoShred

\* ------------------------------------------------------------------------
\* PacketPool (examples/packet_pool.rs)
\* ------------------------------------------------------------------------

\* acquire calls started in one behaviour
MaxAcquires == 5

\* POOL_SIZE, with PoolWords for POOL_SIZE / 64 and WordBits for 64
PoolSize == PoolWords * WordBits

PacketIdxs == 0..(PoolSize - 1)

\* whether the bit of packet index is set in mask (1 = free)
BitSet(mask, index) == (index % WordBits) \in mask[index \div WordBits]

\* usize::trailing_zeros on a word given as the set of its set bits
TrailingZeros(current) ==
    IF current = {} THEN WordBits
    ELSE CHOOSE b \in current : \A c \in current : b <= c

\* slip: release flips the bit instead of setting it
Release_Toggle(mask, index) ==
    [mask EXCEPT ![index \div WordBits] =
        IF (index % WordBits) \in @
        THEN @ \ {index % WordBits}
        ELSE @ \cup {index % WordBits}]

\* release: free_mask[index / 64].fetch_or(1 << (index % 64))
Release(mask, index) ==
    [mask EXCEPT ![index \div WordBits] = @ \cup {index % WordBits}]

\* the word the acquire call of thread t is looking at
AcquireIdx(t) == (tloc[t].start_idx + tloc[t].offset) % PoolWords

\* acquire() or acquire_ref() is entered: next_search is loaded
AcquireBegin(t, kind) ==
    /\ tpc[t] = "idle"
    /\ pool_calls < MaxAcquires
    /\ pool_calls' = pool_calls + 1
    /\ tloc' = [tloc EXCEPT ![t] =
           [kind |-> kind, start_idx |-> next_search % PoolWords,
            offset |-> 0, current |-> {}, packet_idx |-> 0]]
    /\ tpc' = [tpc EXCEPT ![t] = "load"]
    /\ UNCHANGED <<free_mask, next_search, holding, dropped>>

\* mask.load: an empty word ends the inner loop, and past the last word the
\* call returns None
AcquireLoad(t) ==
    /\ tpc[t] = "load"
    /\ LET current == free_mask[AcquireIdx(t)]
       IN  IF current = {} \/ TrailingZeros(current) >= WordBits
           THEN IF tloc[t].offset + 1 < PoolWords
                THEN /\ tloc' = [tloc EXCEPT ![t].offset = @ + 1]
                     /\ UNCHANGED tpc
                ELSE /\ tpc' = [tpc EXCEPT ![t] = "idle"]
                     /\ tloc' = [tloc EXCEPT ![t] = NoLocals]
           ELSE /\ tloc' = [tloc EXCEPT ![t].current = current]
                /\ tpc' = [tpc EXCEPT ![t] = "cas"]
    /\ UNCHANGED <<free_mask, next_search, holding, dropped, pool_calls>>

\* slip: the new mask is stored without comparing the word with current
AcquireCas_PlainStore(t, weak_ok) ==
    /\ tpc[t] = "cas"
    /\ LET idx == AcquireIdx(t)
           current == tloc[t].current
           bit_pos == TrailingZeros(current)
       IN  IF weak_ok
           THEN /\ free_mask' = [free_mask EXCEPT ![idx] = current \ {bit_pos}]
                /\ tloc' = [tloc EXCEPT ![t].current = {},
                                         ![t].packet_idx = idx * WordBits + bit_pos]
                /\ tpc' = [tpc EXCEPT ![t] = "store"]
           ELSE /\ tpc' = [tpc EXCEPT ![t] = "load"]
                /\ tloc' = [tloc EXCEPT ![t].current = {}]
                /\ UNCHANGED free_mask
    /\ UNCHANGED <<next_search, holding, dropped, pool_calls>>

\* mask.compare_exchange_weak(current, new_mask): it fails when the word has
\* changed, and may fail for no reason (weak_ok = FALSE); a failure repeats
\* the inner loop. current is dead after the exchange and is forgotten
AcquireCas(t, weak_ok) ==
    /\ tpc[t] = "cas"
    /\ LET idx == AcquireIdx(t)
           current == tloc[t].current
           bit_pos == TrailingZeros(current)
       IN  IF free_mask[idx] = current /\ weak_ok
           THEN /\ free_mask' = [free_mask EXCEPT ![idx] = current \ {bit_pos}]
                /\ tloc' = [tloc EXCEPT ![t].current = {},
                                         ![t].packet_idx = idx * WordBits + bit_pos]
                /\ tpc' = [tpc EXCEPT ![t] = "store"]
           ELSE /\ tpc' = [tpc EXCEPT ![t] = "load"]
                /\ tloc' = [tloc EXCEPT ![t].current = {}]
                /\ UNCHANGED free_mask
    /\ UNCHANGED <<next_search, holding, dropped, pool_calls>>

\* next_search.store((idx + 1) % words) and the return of Some: the caller
\* holds the packet, as a PacketRef when it came through acquire_ref
AcquireStore(t) ==
    /\ tpc[t] = "store"
    /\ next_search' = (AcquireIdx(t) + 1) % PoolWords
    /\ holding' = [holding EXCEPT ![t] =
           @ \cup {[idx |-> tloc[t].packet_idx, kind |-> tloc[t].kind]}]
    /\ tpc' = [tpc EXCEPT ![t] = "idle"]
    /\ tloc' = [tloc EXCEPT ![t] = NoLocals]
    /\ UNCHANGED <<free_mask, dropped, pool_calls>>

\* drop of a PacketRef: release(self.index). What acquire() returned has no
\* Drop and release is private, so such a packet stays handed out
DropRef(t, p) ==
    /\ tpc[t] = "idle"
    /\ p \in holding[t]
    /\ p.kind = "acquire_ref"
    /\ free_mask' = Release(free_mask, p.idx)
    /\ holding' = [holding EXCEPT ![t] = @ \ {p}]
    /\ dropped' = dropped \cup {p.idx}
    /\ UNCHANGED <<next_search, tpc, tloc, pool_calls>>

PoolInit ==
    /\ SIdle /\ TIdle /\ KIdle
    /\ XIdle /\ PIdle /\ LIdle
    /\ RIdle
    /\ DStart
    /\ lib_strict = TRUE

\* everything but the pool
nonpool == <<dvars, rvars, xvars, pvars, lvars, svars, tvars>>

PoolNext ==
    \/ \E t \in PoolThreads, kind \in {"acquire", "acquire_ref"} :
           AcquireBegin(t, kind) /\ UNCHANGED nonpool
    \/ \E t \in PoolThreads : AcquireLoad(t) /\ UNCHANGED nonpool
    \/ \E t \in PoolThreads, weak_ok \in BOOLEAN :
           AcquireCas(t, weak_ok) /\ UNCHANGED nonpool
    \/ \E t \in PoolThreads : AcquireStore(t) /\ UNCHANGED nonpool
    \/ \E t \in PoolThreads : \E p \in holding[t] :
           DropRef(t, p) /\ UNCHANGED nonpool

PoolSpec == PoolInit /\ [][PoolNext]_vars

\* the packet indices thread t owns: those returned to it and not dropped,
\* and the one whose bit its compare-exchange has just cleared
Owned(t) ==
    { p.idx : p \in holding[t] }
        \cup (IF tpc[t] = "store" THEN {tloc[t].packet_idx} ELSE {})

\* C38: no packet index is owned by two threads at once, the bit of an owned
\* packet is clear, and an index an acquire call returns was in nobody's
\* hands when it was returned.
C38_ExclusiveOwnership ==
    /\ [](/\ \A t \in PoolThreads, u \in PoolThreads :
                t # u => Owned(t) \cap Owned(u) = {}
          /\ \A t \in PoolThreads : \A i \in Owned(t) : ~BitSet(free_mask, i))
    /\ [][\A t \in PoolThreads :
             (tpc[t] = "store" /\ tpc'[t] = "idle") =>
                 \A u \in PoolThreads :
                     tloc[t].packet_idx \notin { p.idx : p \in holding[u] }]_vars

\* C38 witness: both threads hold packets, one of them a packet that had
\* been held through a PacketRef before and was dropped
C38_Witness ==
    /\ holding["relay"] # {} /\ holding["decoder"] # {}
    /\ \E p \in holding["decoder"] : p.idx \in dropped

\* C39: an acquire call returns None only when no bit of free_mask is set at
\* the time it returns.
C39_NoneOnlyWhenExhausted ==
    [][\A t \in PoolThreads :
          (tpc[t] = "load" /\ tpc'[t] = "idle") =>
              \A i \in PacketIdxs : ~BitSet(free_mask', i)]_vars

\* C40: the cleared bits of free_mask are exactly the packets handed out,
\* and as many as the threads own; a drop sets the bit of its own index and
\* changes no other bit, so the packet is free afterwards; releasing it once
\* more changes nothing.
C40_MaskMatchesHandedOut ==
    /\ [](/\ \A i \in PacketIdxs :
                ~BitSet(free_mask, i) <=> \E t \in PoolThreads : i \in Owned(t)
          /\ Cardinality({ i \in PacketIdxs : ~BitSet(free_mask, i) })
                 = Cardinality(Owned("relay")) + Cardinality(Owned("decoder")))
    /\ [][\A t \in PoolThreads : \A p \in holding[t] :
             DropRef(t, p) =>
                 /\ BitSet(free_mask', p.idx)
                 /\ \A i \in PacketIdxs \ {p.idx} :
                        BitSet(free_mask', i) = BitSet(free_mask, i)
                 /\ Release(free_mask', p.idx) = free_mask']_vars

\* C40 witness: a PacketRef was dropped and its packet is free, while both
\* threads hold other packets and one more is being handed out
C40_Witness ==
    /\ \E i \in dropped : BitSet(free_mask, i)
    /\ holding["decoder"] # {}
    /\ holding["relay"] # {}
    /\ tpc["relay"] = "store"
====
